---------------------------- MODULE Spec2Model ----------------------------
(***************************************************************************)
(* A model of the TechLogistics data-cleaning pipeline                     *)
(* (src/data_cleaning.py, driven by load_and_process_data of src/app.py).  *)
(*                                                                         *)
(* Representation.                                                         *)
(*   - A DataFrame is a sequence of rows; a row is a function from column  *)
(*     names to cells.  The header of a zero-row frame is not represented. *)
(*   - A cell is <<>> (NaN / None / NaT) or <<v>>.                         *)
(*   - Floats are exact rationals held as scaled integers; each scale is   *)
(*     stated where the column is introduced.  round(x, 2) is modelled as  *)
(*     round-half-even on the exact value and yields hundredths.           *)
(***************************************************************************)
EXTENDS Integers, Sequences, FiniteSets, TLC

VARIABLES
    hsRaw,      \* health harness: the table as loaded
    hsTable,    \* health harness: the table being cleaned
    hsFills,    \* health harness: number of fillna calls applied to hsTable
    hsBefore,   \* calculate_health_score(hsRaw) once taken
    hsAfter,    \* calculate_health_score(hsTable) once taken
    olSeries,   \* outlier harness: the Series handed to detect_outliers_iqr
    olMult,     \* outlier harness: twice the multiplier
    olResult,   \* outlier harness: the tuple returned, once called
    files,      \* the three tables read_csv returns for the configured paths
    clock,      \* the day datetime.now() last returned
    runs,       \* uncached calls of load_and_process_data so far
    result,     \* the dict returned by the latest call
    rcDataset,  \* re-clean harness: the dataset whose cleaner is applied
    rcOnce,     \* re-clean harness: cleaner(table of files)
    rcTwice,    \* re-clean harness: cleaner(cleaned table of rcOnce)
    exported,   \* report harness: the frame export_cleaning_report_to_csv returned
    insights    \* report harness: how the latest call of generate_ai_insights ended

hsVars == <<hsRaw, hsTable, hsFills, hsBefore, hsAfter>>
olVars == <<olSeries, olMult, olResult>>
plVars == <<files, clock, runs, result>>
rcVars == <<rcDataset, rcOnce, rcTwice>>
rpVars == <<exported, insights>>
vars == <<hsVars, olVars, plVars, rcVars, rpVars>>

---------------------------------------------------------------------------
(* Cells and small helpers                                                 *)

Null == <<>>
Some(v) == <<v>>
IsNull(c) == c = Null
NotNull(c) == c # Null
Val(c) == c[1]

Range(s) == {s[i] : i \in DOMAIN s}

\* name = e followed by the statements of Body: e is computed once
Let(e, Body(_)) == Body(e)

\* a function on 1..n held as the sequence of its values
Tuple(f) == f \o <<>>

\* a function on a set of names held as the table of its values
Dict(f) == f @@ f

Max2(a, b) == IF a >= b THEN a ELSE b
Min2(a, b) == IF a <= b THEN a ELSE b
AbsKeepsSign(n) == n
Abs(n) == IF n < 0 THEN -n ELSE n

RECURSIVE SumSeq(_)
SumSeq(s) == IF s = <<>> THEN 0 ELSE Head(s) + SumSeq(Tail(s))

\* the subsequence of s at the positions satisfying keep (a boolean sequence)
RECURSIVE SelectRows(_, _)
SelectRows(s, keep) ==
    IF s = <<>> THEN <<>>
    ELSE (IF Head(keep) THEN <<Head(s)>> ELSE <<>>) \o SelectRows(Tail(s), Tail(keep))

\* n / d rounded to the nearest integer, ties to even (d > 0)
RoundHalfEven(n, d) ==
    LET q == n \div d
        r == n % d
    IN  IF 2 * r < d THEN q
        ELSE IF 2 * r > d THEN q + 1
        ELSE IF q % 2 = 0 THEN q ELSE q + 1

\* round(n / d, 2), in hundredths
Round2(n, d) == RoundHalfEven(100 * n, d)

---------------------------------------------------------------------------
(* DataFrame primitives                                                    *)

Columns(df) == IF Len(df) = 0 THEN {} ELSE DOMAIN df[1]

\* df.isnull().sum() : per column, the number of null cells
NullsByColumn(df) ==
    Dict([c \in Columns(df) |-> Cardinality({i \in 1..Len(df) : IsNull(df[i][c])})])

RECURSIVE SumOver(_, _)
SumOver(f, S) ==
    IF S = {} THEN 0
    ELSE LET c == CHOOSE x \in S : TRUE IN f[c] + SumOver(f, S \ {c})

\* df.duplicated() : row i repeats an earlier row (NaN equals NaN here)
Duplicated(df) == Tuple([i \in 1..Len(df) |-> \E j \in 1..(i - 1) : df[j] = df[i]])

\* df.drop_duplicates() : the first occurrence of every row is kept
DropDuplicates(df) ==
    Let(Duplicated(df), LAMBDA dup : SelectRows(df, [i \in 1..Len(df) |-> ~dup[i]]))

CountTrue(mask) == Cardinality({i \in DOMAIN mask : mask[i]})

---------------------------------------------------------------------------
(* calculate_health_score                                                  *)

HealthWeightsSwapped == [completitud |-> 3, unicidad |-> 4, validez |-> 3]

\* the weights of the three sub-scores, in tenths
HealthWeights == [completitud |-> 4, unicidad |-> 3, validez |-> 3]

NullCellsAsComplete(total_cells, null_cells) == null_cells

\* the numerator of completitud: total_cells - null_cells
FilledCells(total_cells, null_cells) == total_cells - null_cells

(* Every division of the function has a numpy scalar as numerator          *)
(* (df.isnull().sum().sum(), df.duplicated().sum()), so a zero denominator *)
(* gives NaN with a RuntimeWarning and no exception.  The record's float   *)
(* fields are cells in hundredths; NaN is Null.                            *)
calculate_health_score(df, dataset_name) ==
    Let(NullsByColumn(df), LAMBDA null_by_column :
    Let(SumOver(null_by_column, Columns(df)), LAMBDA null_cells :
    Let(CountTrue(Duplicated(df)), LAMBDA duplicates :
    LET rows == Len(df)
        cols == Cardinality(Columns(df))
        total_cells == rows * cols
        w == HealthWeights
        \* completitud = num_c / total_cells * 100, unicidad = num_u / rows * 100
        num_c == FilledCells(total_cells, null_cells)
        num_u == rows - duplicates
        validez == 100
        \* health_score = (w.c * completitud + w.u * unicidad + w.v * validez) / 10
        hs_num == w.completitud * 100 * num_c * rows
                    + w.unicidad * 100 * num_u * total_cells
                    + w.validez * validez * total_cells * rows
        hs_den == 10 * total_cells * rows
    IN  [ dataset_name |-> dataset_name,
          total_registros |-> rows,
          total_columnas |-> cols,
          total_celdas |-> total_cells,
          celdas_nulas |-> null_cells,
          registros_duplicados |-> duplicates,
          completitud_pct |->
              IF total_cells = 0 THEN Null ELSE Some(Round2(100 * num_c, total_cells)),
          unicidad_pct |->
              IF rows = 0 THEN Null ELSE Some(Round2(100 * num_u, rows)),
          validez_pct |-> Some(100 * validez),
          health_score |->
              IF total_cells = 0 \/ rows = 0 THEN Null ELSE Some(Round2(hs_num, hs_den)),
          nulidad_por_columna |->
              Dict([c \in Columns(df) |-> Some(Round2(100 * null_by_column[c], rows))]),
          columnas_con_nulos |->
              Dict([c \in {k \in Columns(df) : null_by_column[k] > 0} |->
                      null_by_column[c]]) ])))

---------------------------------------------------------------------------
(* detect_outliers_iqr                                                     *)
(* A Series is [dtype, values]; values are cells holding integers in some  *)
(* unit u.  Quantiles are returned in u/4 and the bounds in u/8, which is  *)
(* exact for the multipliers in use (1.5 and 3, passed doubled).           *)

Series(dtype, values) == [dtype |-> dtype, values |-> values]

\* Series.dropna(), sorted ascending
SortedValues(values) ==
    Let(SelectRows(values, [i \in 1..Len(values) |-> NotNull(values[i])]), LAMBDA present :
        SortSeq(Tuple([i \in 1..Len(present) |-> Val(present[i])]), LAMBDA a, b : a < b))

\* Series.quantile(num/4), linear interpolation, times 4; NaN without values
Quantile4(values, num) ==
    Let(SortedValues(values), LAMBDA xs :
        LET n == Len(xs)
            lo == (num * (n - 1)) \div 4
            rem == (num * (n - 1)) % 4
        IN  IF n = 0 THEN Null
            ELSE IF rem = 0 THEN Some(4 * xs[lo + 1])
            ELSE Some(4 * xs[lo + 1] + rem * (xs[lo + 2] - xs[lo + 1])))

IsOutsideInclusive(v8, lower8, upper8) == v8 <= lower8 \/ v8 >= upper8

\* (series < lower_bound) | (series > upper_bound), for one value
IsOutside(v8, lower8, upper8) == v8 < lower8 \/ v8 > upper8

detect_outliers_iqr(series, multiplier2) ==
    IF series.dtype \notin {"int64", "float64"}
    THEN [mask |-> [i \in 1..Len(series.values) |-> FALSE], lower |-> Null, upper |-> Null]
    ELSE Let(Quantile4(series.values, 1), LAMBDA Q1 :
         Let(Quantile4(series.values, 3), LAMBDA Q3 :
             IF IsNull(Q1)
             THEN [mask |-> [i \in 1..Len(series.values) |-> FALSE],
                   lower |-> Null, upper |-> Null]
             ELSE Let(Val(Q3) - Val(Q1), LAMBDA IQR :
                  Let(2 * Val(Q1) - multiplier2 * IQR, LAMBDA lower_bound :
                  Let(2 * Val(Q3) + multiplier2 * IQR, LAMBDA upper_bound :
                      [mask |-> Tuple([i \in 1..Len(series.values) |->
                                    /\ NotNull(series.values[i])
                                    /\ IsOutside(8 * Val(series.values[i]),
                                                 lower_bound, upper_bound)]),
                       lower |-> Some(lower_bound),
                       upper |-> Some(upper_bound)])))))

---------------------------------------------------------------------------
(* Python values held by object columns.  Text-only columns hold plain     *)
(* strings; columns whose values change type during cleaning (lead time,   *)
(* dates, the support-ticket flag) hold tagged values.                     *)

PyText(s) == [str |-> s]
PyBool(b) == [bool |-> b]
PyInt(n) == [int |-> n]
\* a float, in the unit of its column
PyFloat(n) == [float |-> n]
\* a Timestamp at midnight of day d (days counted from the first run day)
PyDatetime(d) == [datetime |-> d]

IsPy(x, type) == type \in DOMAIN x

DictGet(dict, key, default) == IF key \in DOMAIN dict THEN dict[key] ELSE default

\* str.lower().strip() of the texts that it changes
LowerStripTable ==
    ( "Smart-Phone" :> "smart-phone" ) @@ ( "Laptops" :> "laptops" ) @@
    ( "Juguetes" :> "juguetes" ) @@ ( "Smartphones" :> "smartphones" ) @@
    ( "Sin Categoría" :> "sin categoría" ) @@
    ( "NORTE " :> "norte" ) @@ ( "BOD-EXT-99" :> "bod-ext-99" ) @@
    ( "Norte" :> "norte" ) @@ ( "Bodega Externa" :> "bodega externa" ) @@
    ( "Bodega Nueva" :> "bodega nueva" ) @@ ( "Desconocida" :> "desconocida" ) @@
    ( "MED" :> "med" ) @@ ( "Medellín" :> "medellín" ) @@ ( "Bogotá" :> "bogotá" ) @@
    ( "Canal Digital" :> "canal digital" ) @@ ( "Tunja" :> "tunja" ) @@
    ( "Sí" :> "sí" ) @@ ( "SI" :> "si" ) @@ ( "NO" :> "no" ) @@ ( "No" :> "no" ) @@
    ( "N/A" :> "n/a" ) @@ ( "Maybe" :> "maybe" ) @@ ( "Tal vez" :> "tal vez" ) @@
    ( "Sin respuesta" :> "sin respuesta" ) @@
    ( "True" :> "true" ) @@ ( "False" :> "false" ) @@
    ( "Inmediato" :> "inmediato" )

LowerStrip(s) == DictGet(LowerStripTable, s, s)

\* str.title() of the texts that it changes
TitleTable ==
    ( "bodega nueva" :> "Bodega Nueva" ) @@ ( "tunja" :> "Tunja" ) @@
    ( " entregado " :> " Entregado " ) @@ ( "entregado" :> "Entregado" ) @@
    ( "EN CAMINO" :> "En Camino" )

Title(s) == DictGet(TitleTable, s, s)

\* str.strip() of the texts that it changes
StripTable == ( " entregado " :> "entregado" ) @@ ( "NORTE " :> "NORTE" )

Strip(s) == DictGet(StripTable, s, s)

\* str(x) for a tagged value; floats are handled where they are parsed
PyStr(x) ==
    CASE IsPy(x, "str") -> x.str
      [] IsPy(x, "bool") -> IF x.bool THEN "True" ELSE "False"
      [] IsPy(x, "int") -> IF x.int = 1 THEN "1" ELSE "0"
      [] IsPy(x, "float") -> IF x.float = 1 THEN "1.0" ELSE "0.0"

---------------------------------------------------------------------------
(* Normalisation dictionaries                                              *)

CIUDAD_MAPPING ==
    ( "med" :> "Medellín" ) @@ ( "medellin" :> "Medellín" ) @@ ( "medellín" :> "Medellín" ) @@
    ( "bog" :> "Bogotá" ) @@ ( "bogota" :> "Bogotá" ) @@ ( "bogotá" :> "Bogotá" ) @@
    ( "cali" :> "Cali" ) @@ ( "barranquilla" :> "Barranquilla" ) @@
    ( "bucaramanga" :> "Bucaramanga" ) @@ ( "ventas_web" :> "Canal Digital" ) @@
    ( "cartagena" :> "Cartagena" ) @@ ( "pereira" :> "Pereira" ) @@
    ( "manizales" :> "Manizales" ) @@ ( "santa marta" :> "Santa Marta" ) @@
    ( "ibague" :> "Ibagué" ) @@ ( "ibagué" :> "Ibagué" ) @@
    ( "cucuta" :> "Cúcuta" ) @@ ( "cúcuta" :> "Cúcuta" )

BODEGA_MAPPING ==
    ( "norte" :> "Norte" ) @@ ( "sur" :> "Sur" ) @@ ( "occidente" :> "Occidente" ) @@
    ( "oriente" :> "Oriente" ) @@ ( "zona_franca" :> "Zona Franca" ) @@
    ( "bod-ext-99" :> "Bodega Externa" ) @@ ( "centro" :> "Centro" )

CATEGORIA_MAPPING ==
    ( "smart-phone" :> "Smartphones" ) @@ ( "smartphones" :> "Smartphones" ) @@
    ( "smartphone" :> "Smartphones" ) @@ ( "accesorios" :> "Accesorios" ) @@
    ( "monitores" :> "Monitores" ) @@ ( "tablets" :> "Tablets" ) @@
    ( "laptops" :> "Laptops" ) @@ ( "audio" :> "Audio" ) @@ ( "gaming" :> "Gaming" ) @@
    ( "wearables" :> "Wearables" ) @@ ( "???" :> "Sin Categoría" ) @@
    ( "nan" :> "Sin Categoría" ) @@ ( "" :> "Sin Categoría" )

(* Keys are Python values: the literal lists 1 and True (one key, since    *)
(* True == 1) and 0 and False next to the strings.  Values are cells       *)
(* holding a bool; None is Null.                                           *)
TICKET_MAPPING ==
    ( PyText("sí") :> Some(PyBool(TRUE)) ) @@ ( PyText("si") :> Some(PyBool(TRUE)) ) @@
    ( PyText("1") :> Some(PyBool(TRUE)) ) @@ ( PyInt(1) :> Some(PyBool(TRUE)) ) @@
    ( PyText("yes") :> Some(PyBool(TRUE)) ) @@
    ( PyText("no") :> Some(PyBool(FALSE)) ) @@ ( PyText("0") :> Some(PyBool(FALSE)) ) @@
    ( PyInt(0) :> Some(PyBool(FALSE)) ) @@ ( PyText("false") :> Some(PyBool(FALSE)) ) @@
    ( PyText("n/a") :> Null ) @@ ( PyText("nan") :> Null ) @@ ( PyText("") :> Null )

RECOMIENDA_MAPPING ==
    ( "sí" :> "Sí" ) @@ ( "si" :> "Sí" ) @@ ( "yes" :> "Sí" ) @@
    ( "no" :> "No" ) @@ ( "false" :> "No" ) @@
    ( "maybe" :> "Tal vez" ) @@ ( "quizas" :> "Tal vez" ) @@
    ( "n/a" :> "Sin respuesta" ) @@ ( "nan" :> "Sin respuesta" ) @@ ( "" :> "Sin respuesta" )

---------------------------------------------------------------------------
(* Column helpers                                                          *)

Column(df, col) == Tuple([i \in 1..Len(df) |-> df[i][col]])

\* a numeric column as a pandas Series (int64 without NaN, float64 with)
NumericSeries(df, col) ==
    Series(IF \E i \in 1..Len(df) : IsNull(df[i][col]) THEN "float64" ELSE "int64",
           Column(df, col))

\* twice Series.median() of the non-null values; NaN without values
Median2(values) ==
    Let(SortedValues(values), LAMBDA xs :
        LET n == Len(xs)
        IN  IF n = 0 THEN Null
            ELSE IF n % 2 = 1 THEN Some(2 * xs[(n + 1) \div 2])
            ELSE Some(xs[n \div 2] + xs[n \div 2 + 1]))

\* the median as a cell in the column's own unit (exact: see the scales)
MedianCell(values) ==
    Let(Median2(values), LAMBDA m : IF IsNull(m) THEN Null ELSE Some(Val(m) \div 2))

\* df.groupby(key)[col].transform('median') : per row, the median of its group
GroupMedian(keys, values) ==
    Tuple([i \in 1..Len(values) |->
        MedianCell(SelectRows(values, [j \in 1..Len(values) |-> keys[j] = keys[i]]))])

\* Series.fillna(other) with an aligned Series
FillFrom(values, other) ==
    Tuple([i \in 1..Len(values) |-> IF IsNull(values[i]) THEN other[i] ELSE values[i]])

FillScalarNothing(values, cell) == values

\* Series.fillna(scalar); a NaN scalar fills nothing
FillScalar(values, cell) ==
    Tuple([i \in 1..Len(values) |-> IF IsNull(values[i]) THEN cell ELSE values[i]])

NullCount(values) == Cardinality({i \in 1..Len(values) : IsNull(values[i])})

\* round(bound, 2) if bound else None  (0 and None are falsy, NaN is not)
RoundedBound(bound8) ==
    IF IsNull(bound8) \/ Val(bound8) = 0 THEN Null ELSE Some(Round2(Val(bound8), 8))

---------------------------------------------------------------------------
(* Units and dates.  Lead times are held in eighths of a day, shipping     *)
(* costs in quarters of a dollar and ages in half years, so that every     *)
(* median and every average of two values the cleaners compute is exact.   *)
(* Days are counted from the first day on which the pipeline can run       *)
(* (day 0 is Monday 2024-03-04).                                           *)

LeadUnit == 8
EnvioUnit == 4
EdadUnit == 2

\* pd.to_datetime(text, errors='coerce') on the texts it can parse
IsoDateTable == ( "2024-03-01" :> -3 ) @@ ( "2024-03-05" :> 1 )

\* pd.to_datetime(text, format='%d/%m/%Y', errors='coerce')
DmyDateTable == ( "01/03/2024" :> -3 ) @@ ( "05/03/2024" :> 1 )

\* to_datetime of one cell: timestamps pass through, unparsable text is NaT
ToDatetime(cell, table) ==
    IF IsNull(cell) THEN Null
    ELSE IF IsPy(Val(cell), "datetime") THEN cell
    ELSE IF Val(cell).str \in DOMAIN table THEN Some(PyDatetime(table[Val(cell).str]))
    ELSE Null

\* Series > fecha_actual for timestamps at midnight; NaT compares False
IsFuture(cell, fecha_actual) == NotNull(cell) /\ Val(cell).datetime > fecha_actual

DaysSinceMissingWhenFuture(cell, fecha_actual) ==
    IF IsNull(cell) \/ fecha_actual < Val(cell).datetime THEN Null
    ELSE Some(fecha_actual - Val(cell).datetime)

\* (fecha_actual - Series).dt.days
DaysSince(cell, fecha_actual) ==
    IF IsNull(cell) THEN Null ELSE Some(fecha_actual - Val(cell).datetime)

\* the .dt components of a day of March 2024
DtYear(cell) == IF IsNull(cell) THEN Null ELSE Some(2024)
DtMonth(cell) == IF IsNull(cell) THEN Null ELSE Some(3)
DtDayOfWeek(cell) == IF IsNull(cell) THEN Null ELSE Some(Val(cell).datetime % 7)

EmptyDict == [k \in {} |-> k]

\* df[mask][cols]
SideTable(df, mask, cols) ==
    Let(SelectRows(df, mask), LAMBDA rows :
        Tuple([i \in 1..Len(rows) |-> [c \in cols |-> rows[i][c]]]))

\* row with the columns of upd assigned
Assign(row, upd) == upd @@ row

---------------------------------------------------------------------------
(* clean_inventario                                                        *)

\* re.findall(r'\d+', s), '-' in s and float(s) for the lead-time texts
LeadTimeLex ==
    ( "25-30 días" :> [dash |-> TRUE, nums |-> <<25, 30>>, float |-> Null] ) @@
    ( "5" :> [dash |-> FALSE, nums |-> <<5>>, float |-> Some(5)] ) @@
    ( "-3" :> [dash |-> TRUE, nums |-> <<3>>, float |-> Some(-3)] ) @@
    ( "abc" :> [dash |-> FALSE, nums |-> <<>>, float |-> Null] ) @@
    ( "2024-03-01" :> [dash |-> TRUE, nums |-> <<2024, 3, 1>>, float |-> Null] ) @@
    ( "1.5-2.5 días" :> [dash |-> TRUE, nums |-> <<1, 5, 2, 5>>, float |-> Null] ) @@
    ( "inmediato" :> [dash |-> FALSE, nums |-> <<>>, float |-> Null] )

\* the digits str() prints after the point for a number of eighths
FracDigits == <<125, 25, 375, 5, 625, 75, 875>>

(* The same facts for str(x) of a float x held in eighths: the text has a  *)
(* '-' when x is negative, its digit groups are the integer part and the   *)
(* decimals, and float() gives x back.                                     *)
FloatLex(n8) ==
    LET a == Abs(n8)
        frac == IF a % LeadUnit = 0 THEN 0 ELSE FracDigits[a % LeadUnit]
    IN  [dash |-> n8 < 0, nums |-> <<a \div LeadUnit, frac>>, float8 |-> n8]

\* the value parsed from one cell, in eighths of a day
parse_lead_time(cell) ==
    IF IsNull(cell) THEN Null
    ELSE IF IsPy(Val(cell), "float")
    THEN LET lex == FloatLex(Val(cell).float)
         IN  IF lex.dash
             THEN Some((LeadUnit \div 2) * (lex.nums[1] + lex.nums[2]))
             ELSE Some(lex.float8)
    ELSE LET val_str == LowerStrip(Val(cell).str)
             lex == LeadTimeLex[val_str]
         IN  IF val_str \in {"nan", "none", ""} THEN Null
             ELSE IF val_str = "inmediato" THEN Some(LeadUnit)
             ELSE IF lex.dash /\ Len(lex.nums) >= 2
             THEN Some((LeadUnit \div 2) * (lex.nums[1] + lex.nums[2]))
             ELSE IF IsNull(lex.float) THEN Null
             ELSE Some(LeadUnit * Val(lex.float))

NormalizeCategoria(cell) ==
    IF NotNull(cell)
    THEN DictGet(CATEGORIA_MAPPING, LowerStrip(Val(cell)), "Sin Categoría")
    ELSE "Sin Categoría"

NormalizeBodegaFixedDefault(cell) ==
    IF NotNull(cell)
    THEN DictGet(BODEGA_MAPPING, LowerStrip(Val(cell)), "Desconocida")
    ELSE "Desconocida"

NormalizeBodega(cell) ==
    IF NotNull(cell)
    THEN DictGet(BODEGA_MAPPING, LowerStrip(Val(cell)), Title(Val(cell)))
    ELSE "Desconocida"

LessThan(cell, k) == NotNull(cell) /\ Val(cell) < k
GreaterThanNever(cell, k) == FALSE
GreaterThan(cell, k) == NotNull(cell) /\ Val(cell) > k

\* fecha_actual is the value datetime.now() returns inside the call
clean_inventario(df, fecha_actual) ==
    Let(DropDuplicates(df), LAMBDA d1 :
    Let(Tuple([i \in 1..Len(d1) |-> NormalizeCategoria(d1[i].Categoria)]), LAMBDA categoria :
    Let(Tuple([i \in 1..Len(d1) |-> NormalizeBodega(d1[i].Bodega_Origen)]), LAMBDA bodega :
    Let(Tuple([i \in 1..Len(d1) |-> parse_lead_time(d1[i].Lead_Time_Dias)]), LAMBDA parsed :
    Let(GroupMedian(categoria, parsed), LAMBDA lead_time_mediana :
    Let(FillFrom(parsed, lead_time_mediana), LAMBDA lead1 :
    Let(FillScalar(lead1, MedianCell(lead1)), LAMBDA lead2 :
    Let(Tuple([i \in 1..Len(d1) |-> LessThan(d1[i].Stock_Actual, 0)]),
        LAMBDA stocks_negativos_mask :
    Let(Tuple([i \in 1..Len(d1) |-> IF stocks_negativos_mask[i] THEN Some(0)
                                    ELSE d1[i].Stock_Actual]), LAMBDA stock0 :
    Let(FillScalar(stock0, Some(0)), LAMBDA stock1 :
    Let(detect_outliers_iqr(NumericSeries(d1, "Costo_Unitario_USD"), 2 * 3), LAMBDA iqr :
    Let(Tuple([i \in 1..Len(d1) |-> ToDatetime(d1[i].Ultima_Revision, IsoDateTable)]),
        LAMBDA revision :
    Let(Tuple([i \in 1..Len(d1) |-> DaysSince(revision[i], fecha_actual)]), LAMBDA dias :
    Let(Tuple([i \in 1..Len(d1) |-> Assign(d1[i],
                 [Categoria_Original |-> d1[i].Categoria,
                  Categoria |-> Some(categoria[i]),
                  Bodega_Original |-> d1[i].Bodega_Origen,
                  Bodega_Origen |-> Some(bodega[i]),
                  Lead_Time_Original |-> d1[i].Lead_Time_Dias,
                  Lead_Time_Dias |-> IF IsNull(lead2[i]) THEN Null
                                     ELSE Some(PyFloat(Val(lead2[i]))),
                  Stock_Original |-> d1[i].Stock_Actual,
                  Stock_Negativo_Flag |-> Some(stocks_negativos_mask[i]),
                  Stock_Actual |-> stock1[i],
                  Costo_Outlier_Flag |-> Some(iqr.mask[i]),
                  Ultima_Revision |-> revision[i],
                  Dias_Sin_Revision |-> IF LessThan(dias[i], 0) THEN Some(0)
                                        ELSE dias[i]])]), LAMBDA d2 :
    \* the side tables are cut before the stock is corrected
    Let(Tuple([i \in 1..Len(d1) |-> Assign(d2[i], [Stock_Actual |-> d1[i].Stock_Actual])]),
        LAMBDA beforeStock :
    LET duplicados_antes == CountTrue(Duplicated(df))
        nulos_lead_time == NullCount(parsed)
        nulos_stock == NullCount(stock0)
        fechas_futuras ==
            Cardinality({i \in 1..Len(d1) : IsFuture(revision[i], fecha_actual)})
    IN  [df |-> d2,
         log |->
           [registros_originales |-> Len(df),
            acciones |->
                (IF duplicados_antes > 0
                 THEN << <<"Eliminados registros duplicados exactos", duplicados_antes>> >>
                 ELSE <<>>)
                \o << <<"Normalización de categorías completada">>,
                      <<"Normalización de bodegas completada">>,
                      <<"Corregidos registros con stock negativo (establecidos a 0)",
                        CountTrue(stocks_negativos_mask)>> >>
                \o (IF fechas_futuras > 0
                    THEN << <<"Detectadas fechas de revisión futuras", fechas_futuras>> >>
                    ELSE <<>>),
            outliers_detectados |->
                [Costo_Unitario_USD |->
                    [cantidad |-> CountTrue(iqr.mask),
                     limite_inferior |-> RoundedBound(iqr.lower),
                     limite_superior |-> RoundedBound(iqr.upper)]],
            imputaciones |->
                [Lead_Time_Dias |->
                    [metodo |-> "Mediana por categoría",
                     justificacion |->
                         "La mediana es robusta a outliers y "
                         \o "el agrupamiento por categoría refleja patrones de negocio",
                     valores_imputados |-> nulos_lead_time],
                 Stock_Actual |->
                    [metodo |-> "Valor cero",
                     justificacion |->
                         "Stock nulo se interpreta como quiebre de "
                         \o "stock, consistente con la lógica de inventario",
                     valores_imputados |-> nulos_stock]],
            outliers_dataframes |->
                (IF CountTrue(stocks_negativos_mask) > 0
                 THEN "stock_negativo" :>
                        SideTable(beforeStock, stocks_negativos_mask,
                                  {"SKU_ID", "Categoria", "Stock_Original",
                                   "Bodega_Origen", "Costo_Unitario_USD"})
                 ELSE EmptyDict)
                @@ (IF CountTrue(iqr.mask) > 0
                    THEN "costo_outliers" :>
                           SideTable(d2, iqr.mask,
                                     {"SKU_ID", "Categoria", "Costo_Unitario_USD",
                                      "Stock_Actual", "Bodega_Origen"})
                    ELSE EmptyDict),
            registros_finales |-> Len(d2)]])))))))))))))))

---------------------------------------------------------------------------
(* clean_transacciones                                                     *)

NormalizeCiudad(cell) ==
    IF NotNull(cell)
    THEN DictGet(CIUDAD_MAPPING, LowerStrip(Val(cell)), Title(Val(cell)))
    ELSE "Desconocida"

\* fillna('Sin Información') then .str.strip().str.title()
NormalizeEstado(cell) ==
    Title(Strip(IF IsNull(cell) THEN "Sin Información" ELSE Val(cell)))

\* fecha_actual is the value datetime.now() returns inside the call
clean_transacciones(df, fecha_actual) ==
    Let(DropDuplicates(df), LAMBDA d1 :
    Let(Tuple([i \in 1..Len(d1) |-> NormalizeCiudad(d1[i].Ciudad_Destino)]), LAMBDA ciudad :
    Let(Tuple([i \in 1..Len(d1) |-> ToDatetime(d1[i].Fecha_Venta, DmyDateTable)]),
        LAMBDA fecha :
    Let(Tuple([i \in 1..Len(d1) |-> IsFuture(fecha[i], fecha_actual)]),
        LAMBDA fechas_futuras_mask :
    Let(Tuple([i \in 1..Len(d1) |-> LessThan(d1[i].Cantidad_Vendida, 0)]),
        LAMBDA cantidades_negativas_mask :
    Let(Tuple([i \in 1..Len(d1) |-> IF cantidades_negativas_mask[i]
                                    THEN Some(Abs(Val(d1[i].Cantidad_Vendida)))
                                    ELSE d1[i].Cantidad_Vendida]), LAMBDA cantidad :
    Let(detect_outliers_iqr(NumericSeries(d1, "Tiempo_Entrega_Real"), 2 * 3), LAMBDA iqr :
    Let(Tuple([i \in 1..Len(d1) |-> GreaterThan(d1[i].Tiempo_Entrega_Real, 90)]),
        LAMBDA extremo :
    Let(Column(d1, "Costo_Envio"), LAMBDA envio0 :
    Let(GroupMedian(ciudad, envio0), LAMBDA costo_envio_mediana :
    Let(FillFrom(envio0, costo_envio_mediana), LAMBDA envio1 :
    Let(FillScalar(envio1, MedianCell(envio1)), LAMBDA envio2 :
    \* the table as it stands when the side tables are cut (steps 2 to 5)
    Let(Tuple([i \in 1..Len(d1) |-> Assign(d1[i],
                 [Ciudad_Original |-> d1[i].Ciudad_Destino,
                  Ciudad_Destino |-> Some(ciudad[i]),
                  Fecha_Venta_Original |-> d1[i].Fecha_Venta,
                  Fecha_Venta |-> fecha[i],
                  Fecha_Futura_Flag |-> Some(fechas_futuras_mask[i]),
                  Cantidad_Original |-> d1[i].Cantidad_Vendida,
                  Cantidad_Negativa_Flag |-> Some(cantidades_negativas_mask[i]),
                  Tiempo_Entrega_Original |-> d1[i].Tiempo_Entrega_Real,
                  Tiempo_Entrega_Outlier_Flag |-> Some(iqr.mask[i])])]), LAMBDA d2 :
    Let(Tuple([i \in 1..Len(d1) |-> Assign(d2[i],
                 [Cantidad_Vendida |-> cantidad[i],
                  Tiempo_Entrega_Real |-> IF extremo[i] THEN Some(90)
                                          ELSE d1[i].Tiempo_Entrega_Real,
                  Costo_Envio |-> envio2[i],
                  Estado_Envio |-> Some(NormalizeEstado(d1[i].Estado_Envio)),
                  Anio_Venta |-> DtYear(fecha[i]),
                  Mes_Venta |-> DtMonth(fecha[i]),
                  Dia_Semana |-> DtDayOfWeek(fecha[i])])]), LAMBDA d3 :
    LET duplicados_antes == CountTrue(Duplicated(df))
        tiempos_extremos == CountTrue(extremo)
        nulos_costo == NullCount(envio0)
    IN  [df |-> d3,
         log |->
           [registros_originales |-> Len(df),
            acciones |->
                (IF duplicados_antes > 0
                 THEN << <<"Eliminados registros duplicados exactos", duplicados_antes>> >>
                 ELSE <<>>)
                \o << <<"Normalización de ciudades completada">>,
                      <<"Detectadas transacciones con fecha futura",
                        CountTrue(fechas_futuras_mask)>>,
                      <<"Corregidas cantidades negativas (convertidas a valor absoluto)",
                        CountTrue(cantidades_negativas_mask)>> >>,
            outliers_detectados |->
                [Tiempo_Entrega_Real |->
                    [cantidad |-> CountTrue(iqr.mask),
                     limite_superior_iqr |-> RoundedBound(iqr.upper),
                     valores_capeados_90dias |-> tiempos_extremos]],
            imputaciones |->
                [Costo_Envio |->
                    [metodo |-> "Mediana por ciudad destino",
                     justificacion |->
                         "Los costos de envío varían por zona "
                         \o "geográfica, la mediana por ciudad captura esta variabilidad",
                     valores_imputados |-> nulos_costo]],
            outliers_dataframes |->
                (IF CountTrue(fechas_futuras_mask) > 0
                 THEN "fechas_futuras" :>
                        SideTable(d2, fechas_futuras_mask,
                                  {"Transaccion_ID", "SKU_ID", "Fecha_Venta",
                                   "Fecha_Venta_Original", "Cantidad_Vendida",
                                   "Precio_Venta_Final", "Canal_Venta"})
                 ELSE EmptyDict)
                @@ (IF CountTrue(cantidades_negativas_mask) > 0
                    THEN "cantidades_negativas" :>
                           SideTable(d2, cantidades_negativas_mask,
                                     {"Transaccion_ID", "SKU_ID", "Cantidad_Original",
                                      "Precio_Venta_Final", "Canal_Venta", "Fecha_Venta"})
                    ELSE EmptyDict)
                @@ (IF CountTrue(iqr.mask) > 0
                    THEN "tiempo_entrega_outliers" :>
                           SideTable(d2, iqr.mask,
                                     {"Transaccion_ID", "SKU_ID", "Tiempo_Entrega_Original",
                                      "Ciudad_Destino", "Estado_Envio", "Canal_Venta"})
                    ELSE EmptyDict),
            registros_finales |-> Len(d3)]]))))))))))))))

---------------------------------------------------------------------------
(* clean_feedback                                                          *)

\* df.duplicated(subset=[col]) : an earlier row holds the same key
DuplicatedBy(df, col) ==
    Tuple([i \in 1..Len(df) |-> \E j \in 1..(i - 1) : df[j][col] = df[i][col]])

\* df.drop_duplicates(subset=[col], keep='first')
DropDuplicatesBy(df, col) ==
    Let(DuplicatedBy(df, col), LAMBDA dup :
        SelectRows(df, [i \in 1..Len(df) |-> ~dup[i]]))

NormalizeTicket(cell) ==
    IF NotNull(cell)
    THEN DictGet(TICKET_MAPPING, PyText(LowerStrip(PyStr(Val(cell)))), Null)
    ELSE Null

NormalizeRecomienda(cell) ==
    IF NotNull(cell)
    THEN DictGet(RECOMIENDA_MAPPING, LowerStrip(Val(cell)), "Sin respuesta")
    ELSE "Sin respuesta"

CategorizeNpsStrictly(score) ==
    IF IsNull(score) THEN "Sin Datos"
    ELSE IF Val(score) > 50 THEN "Promotor"
    ELSE IF Val(score) > 0 THEN "Pasivo"
    ELSE "Detractor"

categorize_nps(score) ==
    IF IsNull(score) THEN "Sin Datos"
    ELSE IF Val(score) >= 50 THEN "Promotor"
    ELSE IF Val(score) >= 0 THEN "Pasivo"
    ELSE "Detractor"

\* every comparison with NaN is False, so a missing age falls through
segment_age(age) ==
    IF LessThan(age, 25 * EdadUnit) THEN "18-24"
    ELSE IF LessThan(age, 35 * EdadUnit) THEN "25-34"
    ELSE IF LessThan(age, 45 * EdadUnit) THEN "35-44"
    ELSE IF LessThan(age, 55 * EdadUnit) THEN "45-54"
    ELSE IF LessThan(age, 65 * EdadUnit) THEN "55-64"
    ELSE "65+"

EdadValida(cell) ==
    NotNull(cell) /\ Val(cell) >= 18 * EdadUnit /\ Val(cell) <= 100 * EdadUnit

clean_feedback(df) ==
    Let(DropDuplicates(df), LAMBDA d0 :
    Let(DropDuplicatesBy(d0, "Feedback_ID"), LAMBDA d1 :
    Let(Tuple([i \in 1..Len(d1) |-> LessThan(d1[i].Edad_Cliente, 18 * EdadUnit)
                                    \/ GreaterThan(d1[i].Edad_Cliente, 100 * EdadUnit)]),
        LAMBDA edades_invalidas_mask :
    Let(SelectRows(Column(d1, "Edad_Cliente"),
                   [i \in 1..Len(d1) |-> EdadValida(d1[i].Edad_Cliente)]), LAMBDA validas :
    Let(MedianCell(validas), LAMBDA mediana_edad :
    Let(Tuple([i \in 1..Len(d1) |-> IF edades_invalidas_mask[i] THEN mediana_edad
                                    ELSE d1[i].Edad_Cliente]), LAMBDA edad :
    Let(Tuple([i \in 1..Len(d1) |-> LessThan(d1[i].Rating_Producto, 1)
                                    \/ GreaterThan(d1[i].Rating_Producto, 5)]),
        LAMBDA ratings_invalidos_mask :
    Let(Tuple([i \in 1..Len(d1) |->
                 IF GreaterThan(d1[i].Rating_Producto, 5) THEN Some(5)
                 ELSE IF LessThan(d1[i].Rating_Producto, 1) THEN Some(1)
                 ELSE d1[i].Rating_Producto]), LAMBDA rating :
    Let(Tuple([i \in 1..Len(d1) |->
                 IF LessThan(d1[i].Satisfaccion_NPS, -100) THEN Some(-100)
                 ELSE IF GreaterThan(d1[i].Satisfaccion_NPS, 100) THEN Some(100)
                 ELSE d1[i].Satisfaccion_NPS]), LAMBDA nps :
    \* the table as it stands when the side tables are cut
    Let(Tuple([i \in 1..Len(d1) |-> Assign(d1[i],
                 [Ticket_Soporte_Original |-> d1[i].Ticket_Soporte_Abierto,
                  Ticket_Soporte_Abierto |-> NormalizeTicket(d1[i].Ticket_Soporte_Abierto),
                  Recomienda_Original |-> d1[i].Recomienda_Marca,
                  Recomienda_Marca |-> Some(NormalizeRecomienda(d1[i].Recomienda_Marca)),
                  Edad_Original |-> d1[i].Edad_Cliente,
                  Edad_Invalida_Flag |-> Some(edades_invalidas_mask[i]),
                  Rating_Producto_Original |-> d1[i].Rating_Producto,
                  Rating_Producto_Invalido_Flag |-> Some(ratings_invalidos_mask[i])])]),
        LAMBDA d2 :
    Let(Tuple([i \in 1..Len(d1) |-> Assign(d2[i],
                 [Edad_Cliente |-> edad[i],
                  Rating_Producto |-> rating[i],
                  Satisfaccion_NPS |-> nps[i],
                  Categoria_NPS |-> Some(categorize_nps(nps[i])),
                  Segmento_Edad |-> Some(segment_age(edad[i]))])]), LAMBDA d3 :
    LET duplicados_antes == CountTrue(Duplicated(df))
        duplicados_id == CountTrue(DuplicatedBy(d0, "Feedback_ID"))
        total_duplicados == duplicados_antes + duplicados_id
        nps_fuera_rango ==
            Cardinality({i \in 1..Len(d1) : LessThan(d1[i].Satisfaccion_NPS, -100)
                                            \/ GreaterThan(d1[i].Satisfaccion_NPS, 100)})
    IN  [df |-> d3,
         log |->
           [registros_originales |-> Len(df),
            acciones |->
                (IF total_duplicados > 0
                 THEN << <<"Eliminados registros duplicados", total_duplicados>> >>
                 ELSE <<>>)
                \o << <<"Normalización de Ticket_Soporte_Abierto completada">>,
                      <<"Normalización de Recomienda_Marca completada">>,
                      <<"NPS categorizado: valores fuera de rango normalizados",
                        nps_fuera_rango>> >>,
            outliers_detectados |->
                [Rating_Producto |->
                    [cantidad |-> CountTrue(ratings_invalidos_mask),
                     accion |-> "Valores fuera de rango 1-5 capeados a los límites"]],
            imputaciones |->
                [Edad_Cliente |->
                    [metodo |-> "Mediana de edades válidas (18-100 años)",
                     justificacion |->
                         "La mediana es robusta y representa el cliente típico. "
                         \o "Edades fuera de rango son claramente errores de captura.",
                     valores_imputados |-> CountTrue(edades_invalidas_mask),
                     \* round(mediana_edad, 1), in tenths of a year
                     valor_mediana |->
                        IF IsNull(Median2(validas)) THEN Null
                        ELSE Some(RoundHalfEven(10 * Val(Median2(validas)),
                                                2 * EdadUnit))]],
            outliers_dataframes |->
                (IF CountTrue(edades_invalidas_mask) > 0
                 THEN "edades_invalidas" :>
                        SideTable(d2, edades_invalidas_mask,
                                  {"Feedback_ID", "Transaccion_ID", "Edad_Original",
                                   "Rating_Producto", "Rating_Logistica",
                                   "Satisfaccion_NPS"})
                 ELSE EmptyDict)
                @@ (IF CountTrue(ratings_invalidos_mask) > 0
                    THEN "ratings_invalidos" :>
                           SideTable(d2, ratings_invalidos_mask,
                                     {"Feedback_ID", "Transaccion_ID",
                                      "Rating_Producto_Original", "Rating_Logistica",
                                      "Comentario_Texto"})
                    ELSE EmptyDict),
            registros_finales |-> Len(d3)]])))))))))))

---------------------------------------------------------------------------
(* merge_datasets                                                          *)

RECURSIVE Flatten(_)
Flatten(seqs) == IF Len(seqs) = 0 THEN <<>> ELSE Head(seqs) \o Flatten(Tail(seqs))

DropColumns(row, cols) == Dict([c \in (DOMAIN row) \ cols |-> row[c]])

IndicatorAlwaysBoth(n_matches) == "both"

\* the indicator column of a left join, from the number of right rows matched
MergeIndicator(n_matches) == IF n_matches = 0 THEN "left_only" ELSE "both"

(* left.merge(right, on=key, how='left', indicator=ind): every left row,   *)
(* in order, once per right row holding the same key (NaN keys match each  *)
(* other), or once with the right columns null when there is none.         *)
LeftJoin(left, right, key, ind) ==
    LET rightCols == Columns(right) \ {key}
        matches(i) == SelectRows(right, [j \in 1..Len(right) |->
                                            right[j][key] = left[i][key]])
        joined(i) ==
            Let(matches(i), LAMBDA found :
                IF Len(found) = 0
                THEN << left[i] @@ [c \in rightCols |-> Null]
                        @@ (ind :> MergeIndicator(0)) >>
                ELSE Tuple([m \in 1..Len(found) |->
                        left[i] @@ DropColumns(found[m], {key})
                        @@ (ind :> MergeIndicator(Len(found)))]))
    IN  Flatten(Tuple([i \in 1..Len(left) |-> joined(i)]))

\* round(count / total * 100, 2) in hundredths; NaN for a zero total
Percentage(count, total) ==
    IF total = 0 THEN Null ELSE Some(Round2(100 * count, total))

merge_datasets(df_inventario, df_transacciones, df_feedback) ==
    Let(LeftJoin(df_transacciones, df_inventario, "SKU_ID", "_merge_inv"), LAMBDA merged1 :
    Let(Tuple([i \in 1..Len(merged1) |-> merged1[i]["_merge_inv"] = "left_only"]),
        LAMBDA left_only :
    Let({merged1[i].SKU_ID : i \in {k \in 1..Len(merged1) : left_only[k]}},
        LAMBDA skus_fantasma :
    Let(Tuple([i \in 1..Len(merged1) |->
                 merged1[i] @@ [SKU_Fantasma |-> Some(left_only[i])]]), LAMBDA flagged :
    Let(LeftJoin(flagged, df_feedback, "Transaccion_ID", "_merge_fb"), LAMBDA merged2 :
    LET transacciones_totales == Len(df_transacciones)
        transacciones_sin_inventario == CountTrue(left_only)
        transacciones_con_feedback ==
            Cardinality({i \in 1..Len(merged2) : merged2[i]["_merge_fb"] = "both"})
    IN  [df_merged |->
            Tuple([i \in 1..Len(merged2) |->
                DropColumns(merged2[i], {"_merge_inv", "_merge_fb"})]),
         df_skus_fantasma |->
            SelectRows(df_transacciones,
                       [i \in 1..Len(df_transacciones) |->
                           df_transacciones[i].SKU_ID \in skus_fantasma]),
         merge_stats |->
            [transacciones_totales |-> transacciones_totales,
             skus_en_inventario |-> Len(df_inventario),
             feedback_registros |-> Len(df_feedback),
             skus_fantasma_unicos |-> Cardinality(skus_fantasma),
             transacciones_sin_inventario |-> transacciones_sin_inventario,
             porcentaje_ventas_fantasma |->
                Percentage(transacciones_sin_inventario, transacciones_totales),
             transacciones_con_feedback |-> transacciones_con_feedback,
             porcentaje_con_feedback |->
                Percentage(transacciones_con_feedback, transacciones_totales)]])))))

---------------------------------------------------------------------------
(* create_derived_features                                                 *)

RECURSIVE GCD(_, _)
GCD(a, b) == IF b = 0 THEN a ELSE GCD(b, a % b)

\* the quotient num / den (den > 0) as a fraction in lowest terms
Ratio(num, den) ==
    LET g == GCD(Abs(num), den) IN [num |-> num \div g, den |-> den \div g]

FillOne(cell) == IF IsNull(cell) THEN 1 ELSE Val(cell)
FillZero(cell) == IF IsNull(cell) THEN 0 ELSE Val(cell)

CategorizeDeliveryStrictly(brecha) ==
    IF IsNull(brecha) THEN "Sin Datos"
    ELSE IF Val(brecha) < -3 * LeadUnit THEN "Muy Adelantado"
    ELSE IF Val(brecha) < 0 THEN "Adelantado"
    ELSE IF Val(brecha) = 0 THEN "A Tiempo"
    ELSE IF Val(brecha) < 3 * LeadUnit THEN "Leve Retraso"
    ELSE "Retraso Crítico"

\* thresholds are in days, the gap in eighths of a day
categorize_delivery(brecha) ==
    IF IsNull(brecha) THEN "Sin Datos"
    ELSE IF Val(brecha) <= -3 * LeadUnit THEN "Muy Adelantado"
    ELSE IF Val(brecha) < 0 THEN "Adelantado"
    ELSE IF Val(brecha) = 0 THEN "A Tiempo"
    ELSE IF Val(brecha) <= 3 * LeadUnit THEN "Leve Retraso"
    ELSE "Retraso Crítico"

(* Ingreso_Total and Margen_Unitario are in dollars, Costo_Total and       *)
(* Margen_Total in quarters of a dollar, Margen_Porcentaje is an exact     *)
(* fraction and Brecha_Entrega is in eighths of a day.                     *)
DerivedFeatures(row) ==
    LET precio == row.Precio_Venta_Final
        cantidad == row.Cantidad_Vendida
        costo == FillZero(row.Costo_Unitario_USD)
        ingreso == IF IsNull(precio) \/ IsNull(cantidad) THEN Null
                   ELSE Some(Val(precio) * Val(cantidad))
        costo_total == IF IsNull(cantidad) THEN Null
                       ELSE Some(EnvioUnit * costo * Val(cantidad)
                                 + FillZero(row.Costo_Envio))
        margen_total == IF IsNull(ingreso) \/ IsNull(costo_total) THEN Null
                        ELSE Some(EnvioUnit * Val(ingreso) - Val(costo_total))
        brecha == IF NotNull(row.Lead_Time_Dias) /\ NotNull(row.Tiempo_Entrega_Real)
                  THEN Some(LeadUnit * Val(row.Tiempo_Entrega_Real)
                            - Val(row.Lead_Time_Dias).float)
                  ELSE Null
    IN  [Ingreso_Total |-> ingreso,
         Margen_Unitario |->
            IF row.SKU_Fantasma = Some(FALSE) /\ NotNull(precio)
            THEN Some(Val(precio) - costo) ELSE Null,
         Costo_Total |-> costo_total,
         Margen_Total |-> margen_total,
         Margen_Porcentaje |->
            IF GreaterThan(ingreso, 0)
            THEN Some(Ratio(100 * Val(margen_total), EnvioUnit * Val(ingreso)))
            ELSE Some(Ratio(0, 1)),
         Margen_Negativo |-> Some(LessThan(margen_total, 0)),
         Brecha_Entrega |-> brecha,
         Rendimiento_Entrega |-> Some(categorize_delivery(brecha))]

create_derived_features(df) ==
    Tuple([i \in 1..Len(df) |-> df[i] @@ DerivedFeatures(df[i])])

---------------------------------------------------------------------------
(* generate_cleaning_report and load_and_process_data                      *)

ReportMetrics(health) ==
    [health_score |-> health.health_score,
     completitud |-> health.completitud_pct,
     unicidad |-> health.unicidad_pct,
     registros |-> health.total_registros,
     celdas_nulas |-> health.celdas_nulas,
     duplicados |-> health.registros_duplicados]

generate_cleaning_report(health_before, health_after, cleaning_log, dataset_name) ==
    [dataset |-> dataset_name,
     metricas_antes |-> ReportMetrics(health_before),
     metricas_despues |-> ReportMetrics(health_after),
     mejora_health_score |->
        IF IsNull(health_after.health_score) \/ IsNull(health_before.health_score)
        THEN Null
        ELSE Some(Val(health_after.health_score) - Val(health_before.health_score)),
     acciones_realizadas |-> cleaning_log.acciones,
     outliers_detectados |-> cleaning_log.outliers_detectados,
     imputaciones |-> cleaning_log.imputaciones,
     nulidad_por_columna_antes |-> health_before.nulidad_por_columna,
     nulidad_por_columna_despues |-> health_after.nulidad_por_columna]

WrittenInPlace(df, df_clean) == df_clean

(* df_clean = df.copy(), df.merge(...): the table a function writes to is  *)
(* a new one, so the table of the caller is after the call what it was.    *)
KeptByCaller(df, df_clean) == df

(* One uncached call.  raw holds what read_csv returns for the three       *)
(* paths; now_inv and now_trans are what datetime.now() returns inside     *)
(* clean_inventario and clean_transacciones.                               *)
load_and_process_data(raw, now_inv, now_trans) ==
    Let(calculate_health_score(raw.inventario, "Inventario"), LAMBDA health_inv_before :
    Let(calculate_health_score(raw.transacciones, "Transacciones"),
        LAMBDA health_trans_before :
    Let(calculate_health_score(raw.feedback, "Feedback"), LAMBDA health_feed_before :
    Let(clean_inventario(raw.inventario, now_inv), LAMBDA inv :
    Let(clean_transacciones(raw.transacciones, now_trans), LAMBDA trans :
    Let(clean_feedback(raw.feedback), LAMBDA feed :
    Let(calculate_health_score(inv.df, "Inventario"), LAMBDA health_inv_after :
    Let(calculate_health_score(trans.df, "Transacciones"), LAMBDA health_trans_after :
    Let(calculate_health_score(feed.df, "Feedback"), LAMBDA health_feed_after :
    Let(merge_datasets(inv.df, trans.df, feed.df), LAMBDA merged :
        [df_inventario_raw |-> KeptByCaller(raw.inventario, inv.df),
         df_transacciones_raw |-> KeptByCaller(raw.transacciones, trans.df),
         df_feedback_raw |-> KeptByCaller(raw.feedback, feed.df),
         df_inventario |-> inv.df,
         df_transacciones |-> KeptByCaller(trans.df, merged.df_merged),
         df_feedback |-> feed.df,
         df_merged |-> create_derived_features(merged.df_merged),
         df_fantasma |-> merged.df_skus_fantasma,
         merge_stats |-> merged.merge_stats,
         reports |->
            << generate_cleaning_report(health_inv_before, health_inv_after,
                                        inv.log, "Inventario"),
               generate_cleaning_report(health_trans_before, health_trans_after,
                                        trans.log, "Transacciones"),
               generate_cleaning_report(health_feed_before, health_feed_after,
                                        feed.log, "Feedback") >>,
         cleaning_logs |->
            [inventario |-> inv.log, transacciones |-> trans.log, feedback |-> feed.log],
         health_before |->
            [Inventario |-> health_inv_before, Transacciones |-> health_trans_before,
             Feedback |-> health_feed_before],
         health_after |->
            [Inventario |-> health_inv_after, Transacciones |-> health_trans_after,
             Feedback |-> health_feed_after]]))))))))))

---------------------------------------------------------------------------
(* Health harness: a table is scored, cleaned by removal only (duplicates  *)
(* dropped, null cells filled) and scored again, as load_and_process_data  *)
(* does around each cleaner.                                               *)

MaxRows == 6
NCols == 13
MaxFills == 1

NoRecord == [none |-> TRUE]
Raised(e) == [raised |-> e]

\* rows of the harness tables: all null, fully populated, key only
NullRow(nc) == [c \in 1..nc |-> Null]
FullRow(nc) == [c \in 1..nc |-> Some(1)]
KeyRow(nc, k) == [c \in 1..nc |-> IF c = 1 THEN Some(k) ELSE Null]

Replicate(x, n) == [i \in 1..n |-> x]

HsTables ==
    { Replicate(NullRow(nc), a) \o Replicate(FullRow(nc), b) \o [k \in 1..c |-> KeyRow(nc, k)] :
        <<nc, a, b, c>> \in
            { q \in {1, 2, NCols} \X (0..MaxRows) \X (0..MaxRows) \X (0..MaxRows) :
                q[2] + q[3] + q[4] <= MaxRows } }

\* Series.fillna(v) on one column
FillColumn(df, col, v) ==
    [i \in 1..Len(df) |-> [df[i] EXCEPT ![col] = IF IsNull(@) THEN Some(v) ELSE @]]

HsIdle ==
    /\ hsRaw = <<>>
    /\ hsTable = <<>>
    /\ hsFills = 0
    /\ hsBefore = NoRecord
    /\ hsAfter = NoRecord

OlIdle ==
    /\ olSeries = Series("object", <<>>)
    /\ olMult = 3
    /\ olResult = NoRecord

PlIdle ==
    /\ files = [inventario |-> <<>>, transacciones |-> <<>>, feedback |-> <<>>]
    /\ clock = 0
    /\ runs = 0
    /\ result = NoRecord

RcIdle ==
    /\ rcDataset = "none"
    /\ rcOnce = NoRecord
    /\ rcTwice = NoRecord

RpIdle ==
    /\ exported = NoRecord
    /\ insights = NoRecord

InitHealth ==
    /\ OlIdle
    /\ PlIdle
    /\ RcIdle
    /\ RpIdle
    /\ hsRaw \in HsTables
    /\ hsTable = hsRaw
    /\ hsFills = 0
    /\ hsBefore = NoRecord
    /\ hsAfter = NoRecord

HsScoreBefore ==
    /\ hsBefore = NoRecord
    /\ hsBefore' = calculate_health_score(hsRaw, "Dataset")
    /\ UNCHANGED <<hsRaw, hsTable, hsFills, hsAfter, olVars, plVars, rcVars, rpVars>>

HsDropDuplicates ==
    /\ hsBefore # NoRecord
    /\ hsAfter = NoRecord
    /\ CountTrue(Duplicated(hsTable)) > 0
    /\ hsTable' = DropDuplicates(hsTable)
    /\ UNCHANGED <<hsRaw, hsFills, hsBefore, hsAfter, olVars, plVars, rcVars, rpVars>>

\* a fill that turns no row into a copy of another one
HsFillNull ==
    /\ hsBefore # NoRecord
    /\ hsAfter = NoRecord
    /\ hsFills < MaxFills
    /\ \E col \in Columns(hsTable) :
          LET filled == FillColumn(hsTable, col, 2)
          IN  /\ filled # hsTable
              /\ CountTrue(Duplicated(filled)) <= CountTrue(Duplicated(hsTable))
              /\ hsTable' = filled
    /\ hsFills' = hsFills + 1
    /\ UNCHANGED <<hsRaw, hsBefore, hsAfter, olVars, plVars, rcVars, rpVars>>

HsScoreAfter ==
    /\ hsBefore # NoRecord
    /\ hsAfter = NoRecord
    /\ hsAfter' = calculate_health_score(hsTable, "Dataset")
    /\ UNCHANGED <<hsRaw, hsTable, hsFills, hsBefore, olVars, plVars, rcVars, rpVars>>

NextHealth == HsScoreBefore \/ HsDropDuplicates \/ HsFillNull \/ HsScoreAfter

SpecHealth == InitHealth /\ [][NextHealth]_vars

---------------------------------------------------------------------------
(* Outlier harness: detect_outliers_iqr applied to one Series              *)

MaxLen == 6

OlValues == {Null, Some(1), Some(10)}

RECURSIVE SeqsUpTo(_, _)
SeqsUpTo(S, n) ==
    IF n = 0 THEN {<<>>}
    ELSE LET shorter == SeqsUpTo(S, n - 1)
         IN  shorter \cup {Append(q, x) : q \in {r \in shorter : Len(r) = n - 1}, x \in S}

\* an int64 column holds no NaN; a column with NaN is float64 or object
OlSeriesChoices ==
    { Series(dt, vs) : <<dt, vs>> \in
        { q \in {"int64", "float64", "object"} \X SeqsUpTo(OlValues, MaxLen) :
            q[1] = "int64" => \A i \in 1..Len(q[2]) : NotNull(q[2][i]) } }

InitOutlier ==
    /\ HsIdle
    /\ PlIdle
    /\ RcIdle
    /\ RpIdle
    /\ olSeries \in OlSeriesChoices
    /\ olMult \in {3, 6}
    /\ olResult = NoRecord

OlDetect ==
    /\ olResult = NoRecord
    /\ olResult' = detect_outliers_iqr(olSeries, olMult)
    /\ UNCHANGED <<hsVars, olSeries, olMult, plVars, rcVars, rpVars>>

NextOutlier == OlDetect

SpecOutlier == InitOutlier /\ [][NextOutlier]_vars

---------------------------------------------------------------------------
(* Claims about calculate_health_score (checked under SpecHealth)          *)

\* counts taken from the table itself, without the scorer's own passes
NullCellCount(df) ==
    Cardinality({p \in (1..Len(df)) \X Columns(df) : IsNull(df[p[1]][p[2]])})
DistinctRowCount(df) == Cardinality(Range(df))

\* v (an integer) is n / d rounded to the nearest integer
IsRounded(v, n, d) == 2 * Abs(v * d - n) <= d

HealthRecordMatches(df, r) ==
    LET rows == Len(df)
        cells == rows * Cardinality(Columns(df))
        filled == cells - NullCellCount(df)
        unique == DistinctRowCount(df)
    IN  /\ r.validez_pct = Some(10000)
        /\ IsRounded(Val(r.completitud_pct), 10000 * filled, cells)
        /\ IsRounded(Val(r.unicidad_pct), 10000 * unique, rows)
        \* 0.4 x completeness + 0.3 x uniqueness + 0.3 x 100, in hundredths
        /\ IsRounded(Val(r.health_score),
                     4000 * filled * rows + 3000 * unique * cells + 3000 * cells * rows,
                     cells * rows)
        /\ Val(r.health_score) >= 0
        /\ Val(r.health_score) <= 10000

C7_MonotoneUnderCleaning ==
    (hsAfter # NoRecord /\ Len(hsRaw) > 0)
        => Val(hsAfter.health_score) >= Val(hsBefore.health_score)

\* C7 (amended): the score is never lower after null cells are filled; when
\* duplicate rows are dropped as well it is never lower provided the cleaned
\* table is at least 25% complete.
C7_MonotoneWhenQuarterComplete ==
    ( /\ hsAfter # NoRecord
      /\ Len(hsRaw) > 0
      /\ \/ Len(hsTable) = Len(hsRaw)
         \/ 4 * (hsAfter.total_celdas - hsAfter.celdas_nulas) >= hsAfter.total_celdas )
        => Val(hsAfter.health_score) >= Val(hsBefore.health_score)

C7_Witness ==
    /\ hsAfter # NoRecord
    /\ Len(hsTable) < Len(hsRaw)
    /\ hsFills > 0
    /\ 4 * (hsAfter.total_celdas - hsAfter.celdas_nulas) >= hsAfter.total_celdas
    /\ hsAfter.celdas_nulas > 0
    /\ Val(hsAfter.health_score) > Val(hsBefore.health_score)

\* C8: scoring an empty table ends in a division-by-zero error and returns
\* no health record.
C8_EmptyTableRaises ==
    (hsBefore # NoRecord /\ Len(hsRaw) = 0) => hsBefore = Raised("ZeroDivisionError")

---------------------------------------------------------------------------
(* Claims about detect_outliers_iqr (checked under SpecOutlier)            *)

\* the j-th smallest of the non-null values, found by counting
OrderStatistic(values, j) ==
    LET present == {i \in 1..Len(values) : NotNull(values[i])}
    IN  CHOOSE v \in {Val(values[i]) : i \in present} :
            /\ Cardinality({i \in present : Val(values[i]) < v}) < j
            /\ Cardinality({i \in present : Val(values[i]) <= v}) >= j

\* four times the (num/4)-quantile of the non-null values (n of them, n > 0)
Percentile4(values, num) ==
    LET n == Cardinality({i \in 1..Len(values) : NotNull(values[i])})
        lo == (num * (n - 1)) \div 4
        rem == (num * (n - 1)) % 4
    IN  IF rem = 0 THEN 4 * OrderStatistic(values, lo + 1)
        ELSE (4 - rem) * OrderStatistic(values, lo + 1) + rem * OrderStatistic(values, lo + 2)

OlNumeric == olSeries.dtype \in {"int64", "float64"}
OlPresent == {i \in 1..Len(olSeries.values) : NotNull(olSeries.values[i])}
OlLower8 == 2 * Percentile4(olSeries.values, 1)
                - olMult * (Percentile4(olSeries.values, 3) - Percentile4(olSeries.values, 1))
OlUpper8 == 2 * Percentile4(olSeries.values, 3)
                + olMult * (Percentile4(olSeries.values, 3) - Percentile4(olSeries.values, 1))
OlStrictlyOutside(i) ==
    \/ 8 * Val(olSeries.values[i]) < OlLower8
    \/ 8 * Val(olSeries.values[i]) > OlUpper8

\* C9: for a numeric sequence and multiplier k, a value is flagged iff it is
\* below Q1 - k*IQR or above Q3 + k*IQR (quartiles of the non-null values); a
\* value equal to a bound and a missing value are never flagged, a constant
\* sequence has no flagged element, and when exactly one value lies outside
\* the bounds exactly that element is flagged.
C9_OutlierMask ==
    (olResult # NoRecord /\ OlNumeric) =>
        /\ Len(olResult.mask) = Len(olSeries.values)
        /\ \A i \in 1..Len(olSeries.values) :
              /\ IsNull(olSeries.values[i]) => ~olResult.mask[i]
              /\ NotNull(olSeries.values[i]) => (olResult.mask[i] <=> OlStrictlyOutside(i))
              /\ (NotNull(olSeries.values[i])
                    /\ 8 * Val(olSeries.values[i]) \in {OlLower8, OlUpper8}) => ~olResult.mask[i]
        /\ OlPresent # {} =>
              /\ olResult.lower = Some(OlLower8)
              /\ olResult.upper = Some(OlUpper8)
        /\ Cardinality({olSeries.values[i] : i \in OlPresent}) <= 1
              => CountTrue(olResult.mask) = 0
        /\ \A i \in OlPresent :
              (\A j \in OlPresent : OlStrictlyOutside(j) <=> j = i)
                  => \A j \in 1..Len(olSeries.values) : olResult.mask[j] <=> j = i

\* a flagged value, an unflagged value on a bound and a missing value
C9_Witness ==
    /\ olResult # NoRecord
    /\ OlNumeric
    /\ CountTrue(olResult.mask) = 1
    /\ \E i \in 1..Len(olSeries.values) : IsNull(olSeries.values[i])
    /\ \E i \in OlPresent : 8 * Val(olSeries.values[i]) = OlLower8 /\ ~olResult.mask[i]


---------------------------------------------------------------------------
(* Pipeline harness: the raw files are fixed at start; every step is one   *)
(* uncached call of load_and_process_data.  Inside a call the two          *)
(* datetime.now() reads return days that never go back.                    *)

MaxTotalRows == 4
MaxClock == 1
MaxRuns == 2

BaseInv ==
    [SKU_ID |-> Some("S1"), Categoria |-> Some("Laptops"),
     Bodega_Origen |-> Some("NORTE "), Lead_Time_Dias |-> Some(PyText("5")),
     Stock_Actual |-> Some(3), Costo_Unitario_USD |-> Some(10),
     Ultima_Revision |-> Some(PyText("2024-03-01"))]

BaseTrans ==
    [Transaccion_ID |-> Some("T1"), SKU_ID |-> Some("S1"),
     Ciudad_Destino |-> Some("MED"), Fecha_Venta |-> Some(PyText("01/03/2024")),
     Cantidad_Vendida |-> Some(2), Precio_Venta_Final |-> Some(30),
     Costo_Envio |-> Some(2 * EnvioUnit), Estado_Envio |-> Some(" entregado "),
     Tiempo_Entrega_Real |-> Some(5), Canal_Venta |-> Some("Online")]

BaseFeed ==
    [Feedback_ID |-> Some("F1"), Transaccion_ID |-> Some("T1"),
     Rating_Producto |-> Some(4), Rating_Logistica |-> Some(4),
     Comentario_Texto |-> Some("ok"), Recomienda_Marca |-> Some("SI"),
     Ticket_Soporte_Abierto |-> Some(PyText("No")),
     Edad_Cliente |-> Some(30 * EdadUnit), Satisfaccion_NPS |-> Some(60)]

\* the rows that differ from base in one column
Vary(base, col, cells) == {Assign(base, col :> c) : c \in cells}

\* the non-empty tables of at most n rows drawn from pool
TablesOf(pool, n) == UNION {[1..k -> pool] : k \in 1..n}

Files(inv, trans, feed) == [inventario |-> inv, transacciones |-> trans, feedback |-> feed]

(* Key family: rows that differ in their keys only, in every combination   *)
(* of at most MaxTotalRows rows over the three files.                      *)
InvKeyPool ==
    {BaseInv, Assign(BaseInv, [Costo_Unitario_USD |-> Some(20)]),
     Assign(BaseInv, [SKU_ID |-> Some("S2")])}

TransKeyPool ==
    {BaseTrans, Assign(BaseTrans, [Transaccion_ID |-> Some("T2"), SKU_ID |-> Some("S9")])}

FeedKeyPool == {BaseFeed, Assign(BaseFeed, [Feedback_ID |-> Some("F2")])}

KeyScenarios ==
    {f \in [inventario : TablesOf(InvKeyPool, MaxTotalRows - 2),
            transacciones : TablesOf(TransKeyPool, MaxTotalRows - 2),
            feedback : TablesOf(FeedKeyPool, MaxTotalRows - 2)] :
        Len(f.inventario) + Len(f.transacciones) + Len(f.feedback) <= MaxTotalRows}

\* two feedback rows under one Feedback_ID, in either order
FeedbackIdScenarios ==
    LET other == Assign(BaseFeed, [Transaccion_ID |-> Some("T2"),
                                   Rating_Producto |-> Some(2)])
        trans == <<BaseTrans, Assign(BaseTrans, [Transaccion_ID |-> Some("T2")])>>
    IN  {Files(<<BaseInv>>, trans, feed) :
            feed \in {<<BaseFeed, other>>, <<other, BaseFeed>>,
                      <<BaseFeed, other, BaseFeed>>}}

\* missing keys on either side of the two joins
NullKeyScenarios ==
    {Files(inv, trans, feed) :
        inv \in {<<Assign(BaseInv, [SKU_ID |-> Null])>>,
                 <<BaseInv, Assign(BaseInv, [SKU_ID |-> Null])>>},
        trans \in {<<Assign(BaseTrans, [SKU_ID |-> Null])>>,
                   <<BaseTrans, Assign(BaseTrans, [Transaccion_ID |-> Null])>>},
        feed \in {<<BaseFeed>>, <<Assign(BaseFeed, [Transaccion_ID |-> Null])>>}}


(* Field families: one file holds one dirty row, alone or next to the      *)
(* base row; the other two files hold their base row.                      *)
InvVariants ==
    Vary(BaseInv, "Categoria", {Some("Smart-Phone"), Some("???"), Some("Juguetes"), Null})
    \cup Vary(BaseInv, "Bodega_Origen", {Some("BOD-EXT-99"), Some("bodega nueva"), Null})
    \cup Vary(BaseInv, "Lead_Time_Dias",
              {Some(PyText("Inmediato")), Some(PyText("25-30 días")),
               Some(PyText("abc")), Some(PyText("-3")), Null,
               Some(PyText("2024-03-01")), Some(PyText("1.5-2.5 días")),
               Some(PyFloat(-7 * (LeadUnit \div 2)))})
    \cup Vary(BaseInv, "Stock_Actual", {Some(-4), Null})
    \cup Vary(BaseInv, "Costo_Unitario_USD", {Null})
    \cup Vary(BaseInv, "Ultima_Revision",
              {Some(PyText("2024-03-05")), Some(PyText("sin fecha")), Null})
    \cup {Assign(BaseInv, [Categoria |-> Some("Smart-Phone"), Lead_Time_Dias |-> Null])}

TransVariants ==
    Vary(BaseTrans, "Ciudad_Destino",
         {Some("bogota"), Some("ventas_web"), Some("tunja"), Null})
    \cup Vary(BaseTrans, "Fecha_Venta",
              {Some(PyText("05/03/2024")), Some(PyText("2024-03-01")), Null})
    \cup Vary(BaseTrans, "Cantidad_Vendida", {Some(-2), Some(0), Null})
    \cup Vary(BaseTrans, "Precio_Venta_Final", {Some(5), Null})
    \cup Vary(BaseTrans, "Costo_Envio", {Some(4 * EnvioUnit), Null})
    \cup Vary(BaseTrans, "Estado_Envio", {Some("EN CAMINO"), Null})
    \cup Vary(BaseTrans, "Tiempo_Entrega_Real", {Some(120), Some(2), Null})
    \cup {Assign(BaseTrans, [Ciudad_Destino |-> Some("bogota"), Costo_Envio |-> Null])}

FeedTextVariants ==
    Vary(BaseFeed, "Recomienda_Marca", {Some("No"), Some("Maybe"), Some("N/A"), Null})
    \cup Vary(BaseFeed, "Ticket_Soporte_Abierto",
              {Some(PyText("Sí")), Some(PyText("N/A")), Some(PyText("quizás")), Null,
               Some(PyText("yes")), Some(PyText("1")), Some(PyText("0")),
               Some(PyText("false"))})
    \cup Vary(BaseFeed, "Edad_Cliente", {Some(10 * EdadUnit), Some(150 * EdadUnit),
                                         Some(41 * EdadUnit), Null})
    \cup Vary(BaseFeed, "Rating_Producto", {Some(0), Some(7), Null})
    \cup Vary(BaseFeed, "Satisfaccion_NPS", {Some(150), Some(-150), Some(-20), Null})

\* a ticket column that read_csv types as bool, int64 or float64
FeedTypedVariants ==
    Vary(BaseFeed, "Ticket_Soporte_Abierto",
         {Some(PyBool(TRUE)), Some(PyBool(FALSE)), Some(PyInt(1)), Some(PyFloat(0)),
          Some(PyInt(0)), Some(PyFloat(1))})

\* the variant alone, after a base row under another key, or twice around it
DirtyTables(base, variants, key, other) ==
    LET clean == Assign(base, key :> Some(other))
    IN  {<<v>> : v \in variants} \cup {<<clean, v>> : v \in variants}
        \cup {<<v, clean, v>> : v \in variants}

FieldScenarios ==
    {Files(t, <<BaseTrans>>, <<BaseFeed>>) :
        t \in DirtyTables(BaseInv, InvVariants, "SKU_ID", "S2")}
    \cup {Files(<<BaseInv>>, t, <<BaseFeed>>) :
        t \in DirtyTables(BaseTrans, TransVariants, "Transaccion_ID", "T2")}
    \cup {Files(<<BaseInv>>, <<BaseTrans>>, t) :
        t \in DirtyTables(BaseFeed, FeedTextVariants, "Feedback_ID", "F2")}
    \cup {Files(<<BaseInv>>, <<BaseTrans>>, <<v>>) : v \in FeedTypedVariants}

\* five rows, the last one far outside the fences of the first four
Spread(base, key, ids, col, usual, extreme) ==
    [i \in 1..Len(ids) |->
        Assign(base, (key :> Some(ids[i]))
                     @@ (col :> Some(IF i = Len(ids) THEN extreme ELSE usual)))]

OutlierScenarios ==
    {Files(Spread(BaseInv, "SKU_ID", <<"S1", "S2", "S3", "S4", "S5">>,
                  "Costo_Unitario_USD", 10, 1000),
           Spread(BaseTrans, "Transaccion_ID", <<"T1", "T2", "T3", "T4", "T5">>,
                  "Tiempo_Entrega_Real", 5, 120),
           <<BaseFeed>>)}

\* dirty rows in two files at once: names that no synonym table holds
UnmappedScenarios ==
    {Files(<<Assign(BaseInv, [Categoria |-> Some("Juguetes"),
                              Bodega_Origen |-> Some("bodega nueva")])>>,
           <<Assign(BaseTrans, [Ciudad_Destino |-> Some("tunja")])>>,
           <<BaseFeed>>)}

\* rows that differ from base in their key and in the columns of cells[i]
Rekeyed(base, key, ids, cells) ==
    [i \in 1..Len(ids) |-> Assign(base, (key :> Some(ids[i])) @@ cells[i])]

(* Four rows in three groups: a value and a gap in the first group, a      *)
(* value in the second, a gap alone in the third.                          *)
ImputationScenarios ==
    {Files(Rekeyed(BaseInv, "SKU_ID", <<"S1", "S2", "S3", "S4">>,
                   << [Lead_Time_Dias |-> Some(PyText("5"))],
                      [Lead_Time_Dias |-> Null],
                      [Categoria |-> Some("Smart-Phone"),
                       Lead_Time_Dias |-> Some(PyText("Inmediato"))],
                      [Categoria |-> Some("Juguetes"), Lead_Time_Dias |-> Null] >>),
           <<BaseTrans>>, <<BaseFeed>>),
     Files(<<BaseInv>>,
           Rekeyed(BaseTrans, "Transaccion_ID", <<"T1", "T2", "T3", "T4">>,
                   << [Costo_Envio |-> Some(2 * EnvioUnit)],
                      [Costo_Envio |-> Null],
                      [Ciudad_Destino |-> Some("bogota"),
                       Costo_Envio |-> Some(4 * EnvioUnit)],
                      [Ciudad_Destino |-> Some("tunja"), Costo_Envio |-> Null] >>),
           <<BaseFeed>>)}

\* a negative, a missing and a positive count side by side
CountScenarios ==
    {Files(Rekeyed(BaseInv, "SKU_ID", <<"S1", "S2", "S3">>,
                   << [Stock_Actual |-> Some(-5)], [Stock_Actual |-> Null],
                      [Stock_Actual |-> Some(3)] >>),
           Rekeyed(BaseTrans, "Transaccion_ID", <<"T1", "T2", "T3">>,
                   << [Cantidad_Vendida |-> Some(-2)], [Cantidad_Vendida |-> Null],
                      [Cantidad_Vendida |-> Some(2)] >>),
           <<BaseFeed>>)}

(* Seven delivery times whose upper fence (115 days) lies between the cap  *)
(* and the longest one.                                                    *)
DeliveryScenarios ==
    {Files(<<BaseInv>>,
           Rekeyed(BaseTrans, "Transaccion_ID",
                   <<"T1", "T2", "T3", "T4", "T5", "T6", "T7">>,
                   [i \in 1..7 |->
                      [Tiempo_Entrega_Real |->
                          Some(IF i = 6 THEN 60 ELSE IF i = 7 THEN 120 ELSE 5)]]),
           <<BaseFeed>>)}

(* Seven answers: ages inside, below and above [18, 100] and missing;      *)
(* scores beyond both ends of the scale, on each threshold and missing.    *)
SurveyScenarios ==
    {Files(<<BaseInv>>, <<BaseTrans>>,
           Rekeyed(BaseFeed, "Feedback_ID",
                   <<"F1", "F2", "F3", "F4", "F5", "F6", "F7">>,
                   << [Edad_Cliente |-> Some(30 * EdadUnit), Satisfaccion_NPS |-> Some(150)],
                      [Edad_Cliente |-> Some(41 * EdadUnit), Satisfaccion_NPS |-> Some(-150)],
                      [Edad_Cliente |-> Some(10 * EdadUnit), Satisfaccion_NPS |-> Some(50)],
                      [Edad_Cliente |-> Some(150 * EdadUnit), Satisfaccion_NPS |-> Some(49)],
                      [Edad_Cliente |-> Null, Satisfaccion_NPS |-> Some(0)],
                      [Edad_Cliente |-> Some(18 * EdadUnit), Satisfaccion_NPS |-> Some(-1)],
                      [Edad_Cliente |-> Some(100 * EdadUnit), Satisfaccion_NPS |-> Null] >>))}

(* Sales of one product at a unit cost of 30 and a shipping cost of 10:    *)
(* a profit, a loss, no units, a product without a cost, a product that    *)
(* is not in the inventory, no price and a negative price.                 *)
MarginScenarios ==
    {Files(Rekeyed(BaseInv, "SKU_ID", <<"S1", "S2">>,
                   << [Costo_Unitario_USD |-> Some(30)],
                      [Costo_Unitario_USD |-> Null] >>),
           Rekeyed(Assign(BaseTrans, [Costo_Envio |-> Some(10 * EnvioUnit)]),
                   "Transaccion_ID",
                   <<"T1", "T2", "T3", "T4", "T5", "T6", "T7">>,
                   << [Precio_Venta_Final |-> Some(100)],
                      [Precio_Venta_Final |-> Some(5)],
                      [Precio_Venta_Final |-> Some(100), Cantidad_Vendida |-> Some(0)],
                      [Precio_Venta_Final |-> Some(100), SKU_ID |-> Some("S2")],
                      [Precio_Venta_Final |-> Some(100), SKU_ID |-> Some("S9")],
                      [Precio_Venta_Final |-> Null],
                      [Precio_Venta_Final |-> Some(-10)] >>),
           <<BaseFeed>>)}

(* Deliveries of a product whose lead time is 5 days: 3 and 2 days early,  *)
(* on the day, 3 and 4 days late, and one of a product with no lead time.  *)
GapScenarios ==
    {Files(<<BaseInv>>,
           Rekeyed(BaseTrans, "Transaccion_ID",
                   <<"T1", "T2", "T3", "T4", "T5", "T6">>,
                   << [Tiempo_Entrega_Real |-> Some(2)],
                      [Tiempo_Entrega_Real |-> Some(3)],
                      [Tiempo_Entrega_Real |-> Some(5)],
                      [Tiempo_Entrega_Real |-> Some(8)],
                      [Tiempo_Entrega_Real |-> Some(9)],
                      [Tiempo_Entrega_Real |-> Some(5), SKU_ID |-> Some("S9")] >>),
           <<BaseFeed>>)}

(* Five products, the last one with a cost far outside the fences of the  *)
(* other four and a negative stock.                                        *)
AnomalyScenarios ==
    {Files(Rekeyed(BaseInv, "SKU_ID", <<"S1", "S2", "S3", "S4", "S5">>,
                   [i \in 1..5 |->
                      IF i = 5
                      THEN [Costo_Unitario_USD |-> Some(1000), Stock_Actual |-> Some(-5)]
                      ELSE [Costo_Unitario_USD |-> Some(10), Stock_Actual |-> Some(3)]]),
           <<BaseTrans>>, <<BaseFeed>>)}

Scenarios ==
    KeyScenarios \cup FeedbackIdScenarios \cup NullKeyScenarios
    \cup FieldScenarios \cup OutlierScenarios \cup UnmappedScenarios
    \cup ImputationScenarios \cup CountScenarios \cup DeliveryScenarios
    \cup SurveyScenarios \cup MarginScenarios \cup GapScenarios
    \cup AnomalyScenarios

Init ==
    /\ HsIdle
    /\ OlIdle
    /\ RcIdle
    /\ RpIdle
    /\ files \in Scenarios
    /\ clock = 0
    /\ runs = 0
    /\ result = NoRecord

LoadAndProcess ==
    /\ runs < MaxRuns
    /\ \E now_inv \in clock..MaxClock :
          \E now_trans \in now_inv..MaxClock :
              /\ result' = load_and_process_data(files, now_inv, now_trans)
              /\ clock' = now_trans
    /\ runs' = runs + 1
    /\ UNCHANGED <<files, hsVars, olVars, rcVars, rpVars>>

Next == LoadAndProcess

Spec == Init /\ [][Next]_vars

---------------------------------------------------------------------------
(* Re-clean harness: one cleaner is applied to its file, then to its own   *)
(* output.                                                                 *)

Datasets == {"inventario", "transacciones", "feedback"}

Cleaner(name, df, fecha_actual) ==
    CASE name = "inventario" -> clean_inventario(df, fecha_actual)
      [] name = "transacciones" -> clean_transacciones(df, fecha_actual)
      [] name = "feedback" -> clean_feedback(df)

InitReclean ==
    /\ HsIdle
    /\ OlIdle
    /\ RcIdle
    /\ RpIdle
    /\ files \in FieldScenarios \cup OutlierScenarios
    /\ clock = 0
    /\ runs = 0
    /\ result = NoRecord

RcClean ==
    /\ rcOnce = NoRecord
    /\ \E name \in Datasets :
          \E now \in clock..MaxClock :
              /\ rcDataset' = name
              /\ rcOnce' = Cleaner(name, files[name], now)
              /\ clock' = now
    /\ UNCHANGED <<files, runs, result, rcTwice, hsVars, olVars, rpVars>>

RcReclean ==
    /\ rcOnce # NoRecord
    /\ rcTwice = NoRecord
    /\ \E now \in clock..MaxClock :
          /\ rcTwice' = Cleaner(rcDataset, rcOnce.df, now)
          /\ clock' = now
    /\ UNCHANGED <<files, runs, result, rcDataset, rcOnce, hsVars, olVars, rpVars>>

NextReclean == RcClean \/ RcReclean

SpecReclean == InitReclean /\ [][NextReclean]_vars


---------------------------------------------------------------------------
(* Claims about the integration                                            *)

Ran == result # NoRecord

Rows(df) == 1..Len(df)

KeyUnique(df, col) ==
    \A i, j \in Rows(df) : i # j => df[i][col] # df[j][col]

\* the cleaned inventory holds the SKU of the row
InInventory(r, row) == \E j \in Rows(r.df_inventario) : r.df_inventario[j].SKU_ID = row.SKU_ID

\* the cleaned feedback holds the transaction of the row
HasFeedback(r, row) ==
    \E j \in Rows(r.df_feedback) : r.df_feedback[j].Transaccion_ID = row.Transaccion_ID

\* the columns of the integrated row that come from the cleaned transaction
TransactionPart(r, row) == [c \in Columns(r.df_transacciones) |-> row[c]]

(* C1: the integrated table has exactly as many rows as the cleaned        *)
(* transaction table.                                                      *)
C1_RowCountPreserved ==
    Ran => Len(result.df_merged) = Len(result.df_transacciones)

(* C2: the cleaners leave no two inventory rows under one SKU_ID and no    *)
(* two feedback rows under one Transaccion_ID or one Feedback_ID, the      *)
(* feedback row kept for a Feedback_ID being its first occurrence.         *)
C2_JoinKeysDeduplicated ==
    Ran =>
        /\ KeyUnique(result.df_inventario, "SKU_ID")
        /\ KeyUnique(result.df_feedback, "Transaccion_ID")
        /\ KeyUnique(result.df_feedback, "Feedback_ID")
        /\ \A i \in Rows(result.df_feedback) :
              LET id == result.df_feedback[i].Feedback_ID
                  first == CHOOSE k \in Rows(files.feedback) :
                              /\ files.feedback[k].Feedback_ID = id
                              /\ \A m \in 1..(k - 1) : files.feedback[m].Feedback_ID # id
              IN  result.df_feedback[i].Transaccion_ID
                      = files.feedback[first].Transaccion_ID

(* C3: SKU_Fantasma is true on exactly the integrated rows whose SKU_ID    *)
(* does not occur in the cleaned inventory, every cleaned transaction is   *)
(* among the integrated rows, and the ghost subset is the cleaned          *)
(* transactions whose rows are flagged, in their order.                    *)
C3_GhostFlagExact ==
    Ran =>
        LET trans == result.df_transacciones
            merged == result.df_merged
            flaggedParts == {TransactionPart(result, merged[i]) :
                                i \in {k \in Rows(merged) :
                                          merged[k].SKU_Fantasma = Some(TRUE)}}
        IN  /\ \A i \in Rows(merged) :
                  merged[i].SKU_Fantasma = Some(~InInventory(result, merged[i]))
            /\ \A k \in Rows(trans) :
                  \E i \in Rows(merged) : TransactionPart(result, merged[i]) = trans[k]
            /\ result.df_fantasma
                  = SelectRows(trans, [k \in Rows(trans) |-> trans[k] \in flaggedParts])

\* a ghost transaction next to one whose SKU is in the inventory
C3_Witness ==
    /\ Ran
    /\ \E i \in Rows(result.df_merged) : result.df_merged[i].SKU_Fantasma = Some(TRUE)
    /\ \E i \in Rows(result.df_merged) : result.df_merged[i].SKU_Fantasma = Some(FALSE)
    /\ Len(result.df_fantasma) > 0
    /\ Len(result.df_fantasma) < Len(result.df_transacciones)

(* C10: the merge statistics count cleaned transactions: those without     *)
(* inventory and those with feedback, each at most the total, with         *)
(* percentages count / total x 100 between 0 and 100.                      *)
C10_StatsCountTransactions ==
    Ran =>
        LET trans == result.df_transacciones
            stats == result.merge_stats
            total == stats.transacciones_totales
            sin_inventario == Cardinality({k \in Rows(trans) : ~InInventory(result, trans[k])})
            con_feedback == Cardinality({k \in Rows(trans) : HasFeedback(result, trans[k])})
        IN  /\ total = Len(trans)
            /\ stats.transacciones_sin_inventario = sin_inventario
            /\ stats.transacciones_con_feedback = con_feedback
            /\ stats.transacciones_sin_inventario <= total
            /\ stats.transacciones_con_feedback <= total
            /\ stats.porcentaje_ventas_fantasma = Some(Round2(100 * sin_inventario, total))
            /\ stats.porcentaje_con_feedback = Some(Round2(100 * con_feedback, total))
            /\ Val(stats.porcentaje_ventas_fantasma) \in 0..(100 * 100)
            /\ Val(stats.porcentaje_con_feedback) \in 0..(100 * 100)


---------------------------------------------------------------------------
(* Claims about re-running the pipeline                                    *)

\* the outputs computed from datetime.now()
ClockColumns == {"Dias_Sin_Revision", "Fecha_Futura_Flag"}
ClockActions == {"Detectadas fechas de revisión futuras",
                 "Detectadas transacciones con fecha futura"}
ClockSideTables == {"fechas_futuras"}

WithoutClockColumns(df) == [i \in Rows(df) |-> DropColumns(df[i], ClockColumns)]

WithoutClockActions(acciones) ==
    SelectRows(acciones, [i \in Rows(acciones) |-> acciones[i][1] \notin ClockActions])

WithoutClockLog(log) ==
    [log EXCEPT !.acciones = WithoutClockActions(@),
                !.outliers_dataframes = DropColumns(@, ClockSideTables)]

ClockFree(r) ==
    [r EXCEPT
        !.df_inventario = WithoutClockColumns(@),
        !.df_transacciones = WithoutClockColumns(@),
        !.df_merged = WithoutClockColumns(@),
        !.df_fantasma = WithoutClockColumns(@),
        !.cleaning_logs = [name \in DOMAIN @ |-> WithoutClockLog(@[name])],
        !.reports = [i \in Rows(@) |->
                        [@[i] EXCEPT !.acciones_realizadas = WithoutClockActions(@)]]]

IsRerun == result # NoRecord /\ result' # NoRecord

(* C4 as stated: two runs on the same raw tables return equal outputs.     *)
C4_RerunIdentical == [][IsRerun => result' = result]_vars

(* C4: two runs on the same raw tables return equal outputs apart from     *)
(* what is computed from the current time: the columns Dias_Sin_Revision   *)
(* and Fecha_Futura_Flag, the fechas_futuras side table and the two        *)
(* future-date log actions.                                                *)
C4_RerunEqualUpToClock == [][IsRerun => ClockFree(result') = ClockFree(result)]_vars

\* a second run, on a day when a sale dated after the first day is no longer future
C4_Witness ==
    /\ Ran
    /\ runs >= 2
    /\ \E i \in Rows(result.df_transacciones) :
          LET row == result.df_transacciones[i]
          IN  /\ NotNull(row.Fecha_Venta)
              /\ Val(row.Fecha_Venta).datetime > 0
              /\ row.Fecha_Futura_Flag = Some(FALSE)

---------------------------------------------------------------------------
(* Claims about cleaning a cleaned table                                   *)

CleanedFields(name) ==
    CASE name = "inventario" ->
            {"Categoria", "Bodega_Origen", "Lead_Time_Dias", "Stock_Actual"}
      [] name = "transacciones" ->
            {"Ciudad_Destino", "Cantidad_Vendida", "Tiempo_Entrega_Real", "Estado_Envio"}
      [] name = "feedback" ->
            {"Ticket_Soporte_Abierto", "Recomienda_Marca", "Edad_Cliente",
             "Rating_Producto", "Satisfaccion_NPS"}

\* the cleaned value needs no further treatment
AlreadyValid(col, cell) ==
    /\ NotNull(cell)
    /\ CASE col = "Lead_Time_Dias" -> Val(cell).float >= 0
         [] col \in {"Stock_Actual", "Cantidad_Vendida"} -> Val(cell) >= 0
         [] col = "Tiempo_Entrega_Real" -> Val(cell) \in 0..90
         [] col = "Edad_Cliente" -> EdadValida(cell)
         [] col = "Rating_Producto" -> Val(cell) \in 1..5
         [] col = "Satisfaccion_NPS" -> Val(cell) \in -100..100
         [] OTHER -> TRUE

FieldKept(col) ==
    /\ Len(rcTwice.df) = Len(rcOnce.df)
    /\ \A i \in Rows(rcOnce.df) :
          AlreadyValid(col, rcOnce.df[i][col]) => rcTwice.df[i][col] = rcOnce.df[i][col]

(* C5: a cleaner applied to its own output changes no already-valid value  *)
(* of a cleaned field.                                                     *)
C5_RecleanKeepsValidValues ==
    rcTwice # NoRecord => \A col \in CleanedFields(rcDataset) : FieldKept(col)


---------------------------------------------------------------------------
(* Claims about the cleaners, read off the tables one run returns          *)

CanonicalCategories ==
    {"Smartphones", "Accesorios", "Monitores", "Tablets", "Laptops", "Audio",
     "Gaming", "Wearables"}

Unmapped(cell, mapping) == NotNull(cell) /\ LowerStrip(Val(cell)) \notin DOMAIN mapping

\* some raw row holds the key and the values the shadow columns show
ShadowsRaw(raw, row, key, pairs) ==
    \E j \in Rows(raw) :
        /\ raw[j][key] = row[key]
        /\ \A c \in DOMAIN pairs : raw[j][c] = row[pairs[c]]

(* C11: a category the synonym table lacks, or a missing one, becomes      *)
(* 'Sin Categoría', so every cleaned category is canonical or that         *)
(* default; a warehouse or city its table lacks becomes its own text in    *)
(* title case and not the fixed default; the shadow columns hold the raw   *)
(* values.                                                                 *)
C11_FallbackPerTable ==
    Ran =>
        /\ \A i \in Rows(result.df_inventario) :
              LET row == result.df_inventario[i]
              IN  /\ row.Categoria \in
                        {Some(n) : n \in CanonicalCategories \cup {"Sin Categoría"}}
                  /\ (IsNull(row.Categoria_Original)
                        \/ Unmapped(row.Categoria_Original, CATEGORIA_MAPPING))
                        => row.Categoria = Some("Sin Categoría")
                  /\ Unmapped(row.Bodega_Original, BODEGA_MAPPING)
                        => /\ row.Bodega_Origen = Some(Title(Val(row.Bodega_Original)))
                           /\ row.Bodega_Origen # Some("Desconocida")
                  /\ ShadowsRaw(result.df_inventario_raw, row, "SKU_ID",
                                [Categoria |-> "Categoria_Original",
                                 Bodega_Origen |-> "Bodega_Original"])
        /\ \A i \in Rows(result.df_transacciones) :
              LET row == result.df_transacciones[i]
              IN  /\ Unmapped(row.Ciudad_Original, CIUDAD_MAPPING)
                        => /\ row.Ciudad_Destino = Some(Title(Val(row.Ciudad_Original)))
                           /\ row.Ciudad_Destino # Some("Desconocida")
                  /\ ShadowsRaw(result.df_transacciones_raw, row, "Transaccion_ID",
                                [Ciudad_Destino |-> "Ciudad_Original"])

\* an unknown category, an unknown warehouse and an unknown city in one run
C11_Witness ==
    /\ Ran
    /\ \E i \in Rows(result.df_inventario) :
          LET row == result.df_inventario[i]
          IN  /\ row.Categoria_Original = Some("Juguetes")
              /\ row.Categoria = Some("Sin Categoría")
              /\ row.Bodega_Original = Some("bodega nueva")
              /\ row.Bodega_Origen = Some("Bodega Nueva")
    /\ \E i \in Rows(result.df_transacciones) :
          LET row == result.df_transacciones[i]
          IN  /\ row.Ciudad_Original = Some("tunja")
              /\ row.Ciudad_Destino = Some("Tunja")

\* what each lead-time text stands for, in eighths of a day: the literal
\* 'inmediato', a range A-B (its mean), a plain number, or none of these
LeadTimeMeaning ==
    ( "Inmediato" :> Some(LeadUnit) ) @@ ( "25-30 días" :> Some(220) ) @@
    ( "1.5-2.5 días" :> Some(2 * LeadUnit) ) @@
    ( "5" :> Some(5 * LeadUnit) ) @@ ( "-3" :> Some(-3 * LeadUnit) ) @@
    ( "abc" :> Null ) @@ ( "2024-03-01" :> Null )

\* a number read by read_csv stands for itself
ExpectedLeadTime(cell) ==
    IF IsNull(cell) THEN Null
    ELSE IF IsPy(Val(cell), "float") THEN Some(Val(cell).float)
    ELSE LeadTimeMeaning[Val(cell).str]

AsFloatCell(cell) == IF IsNull(cell) THEN Null ELSE Some(PyFloat(Val(cell)))

(* C12: parse_lead_time gives 1 for 'inmediato', the mean of A and B for a *)
(* range A-B, the number for a plain number and missing for anything else. *)
(* A row whose text has a meaning keeps it as its lead time, and a table   *)
(* in which no text has one is left without lead times.                    *)
C12_ParseLeadTimeShapes ==
    Ran =>
        LET inv == result.df_inventario
        IN  /\ \A i \in Rows(inv) :
                  NotNull(ExpectedLeadTime(inv[i].Lead_Time_Original))
                      => inv[i].Lead_Time_Dias
                            = AsFloatCell(ExpectedLeadTime(inv[i].Lead_Time_Original))
            /\ (\A i \in Rows(inv) : IsNull(ExpectedLeadTime(inv[i].Lead_Time_Original)))
                  => \A i \in Rows(inv) : IsNull(inv[i].Lead_Time_Dias)

\* the number a cleaned lead time holds, in eighths of a day
LeadValue(cell) == IF IsNull(cell) THEN Null ELSE Some(Val(cell).float)

\* the raw rows in the order the cleaner keeps them
KeptRaw(raw) == SelectRows(raw, [i \in Rows(raw) |-> \A j \in 1..(i - 1) : raw[j] # raw[i]])

(* cleaned is observed with its gaps filled in two stages: by the median   *)
(* of the observed values of the row's group, else by the median of all    *)
(* the observed values                                                     *)
TwoStageFilled(keys, observed, cleaned) ==
    (\E i \in DOMAIN observed : NotNull(observed[i])) =>
        \A i \in DOMAIN observed :
            cleaned[i] = IF NotNull(observed[i]) THEN observed[i]
                         ELSE IF NotNull(GroupMedian(keys, observed)[i])
                         THEN GroupMedian(keys, observed)[i]
                         ELSE MedianCell(observed)

(* C13: a missing lead time (shipping cost) gets the median of the         *)
(* observed values of its category (city) when there are any, otherwise    *)
(* the median of all observed values; observed values are unchanged and    *)
(* none stays missing when a value is observed.                            *)
C13_TwoStageMedian ==
    Ran =>
        LET inv == result.df_inventario
            trans == result.df_transacciones
            kept == KeptRaw(result.df_transacciones_raw)
        IN  /\ TwoStageFilled(Column(inv, "Categoria"),
                              [i \in Rows(inv) |-> parse_lead_time(inv[i].Lead_Time_Original)],
                              [i \in Rows(inv) |-> LeadValue(inv[i].Lead_Time_Dias)])
            /\ Len(kept) = Len(trans)
            /\ TwoStageFilled(Column(trans, "Ciudad_Destino"),
                              Column(kept, "Costo_Envio"), Column(trans, "Costo_Envio"))

IsRaised(r) == DOMAIN r = {"raised"}

\* the column a cleaner fills with a median holds no value to take one from
NoUsableValue ==
    \/ \A i \in Rows(files.inventario) :
          IsNull(parse_lead_time(files.inventario[i].Lead_Time_Dias))
    \/ \A i \in Rows(files.transacciones) : IsNull(files.transacciones[i].Costo_Envio)
    \/ \A i \in Rows(files.feedback) : ~EdadValida(files.feedback[i].Edad_Cliente)

(* C14: when every lead time, every shipping cost or every age is          *)
(* unusable, the run ends in an error; no table is returned in which a     *)
(* lead time, a shipping cost or the age of a row flagged invalid is       *)
(* missing.                                                                *)
C14_NoUsableValueRaises ==
    Ran =>
        /\ NoUsableValue => IsRaised(result)
        /\ ~IsRaised(result) =>
              /\ \A i \in Rows(result.df_inventario) :
                    NotNull(result.df_inventario[i].Lead_Time_Dias)
              /\ \A i \in Rows(result.df_transacciones) :
                    NotNull(result.df_transacciones[i].Costo_Envio)
              /\ \A i \in Rows(result.df_feedback) :
                    result.df_feedback[i].Edad_Invalida_Flag = Some(TRUE)
                        => NotNull(result.df_feedback[i].Edad_Cliente)

(* C15: every cleaned stock is present and not negative.  A negative raw   *)
(* stock becomes 0 with the flag set, a missing one becomes 0 without the  *)
(* flag, any other is unchanged without the flag, and Stock_Original is    *)
(* the raw stock.                                                          *)
C15_StockNonNegative ==
    Ran =>
        \A i \in Rows(result.df_inventario) :
            LET row == result.df_inventario[i]
                original == row.Stock_Original
            IN  /\ NotNull(row.Stock_Actual) /\ Val(row.Stock_Actual) >= 0
                /\ ShadowsRaw(result.df_inventario_raw, row, "SKU_ID",
                              [Stock_Actual |-> "Stock_Original"])
                /\ IF IsNull(original)
                   THEN row.Stock_Actual = Some(0) /\ row.Stock_Negativo_Flag = Some(FALSE)
                   ELSE IF Val(original) < 0
                   THEN row.Stock_Actual = Some(0) /\ row.Stock_Negativo_Flag = Some(TRUE)
                   ELSE row.Stock_Actual = original
                        /\ row.Stock_Negativo_Flag = Some(FALSE)

\* raw stocks -5, missing and 3 cleaned in one run
C15_Witness ==
    /\ Ran
    /\ \E i, j, k \in Rows(result.df_inventario) :
          LET inv == result.df_inventario
          IN  /\ inv[i].Stock_Original = Some(-5) /\ inv[i].Stock_Actual = Some(0)
              /\ inv[i].Stock_Negativo_Flag = Some(TRUE)
              /\ inv[j].Stock_Original = Null /\ inv[j].Stock_Actual = Some(0)
              /\ inv[j].Stock_Negativo_Flag = Some(FALSE)
              /\ inv[k].Stock_Original = Some(3) /\ inv[k].Stock_Actual = Some(3)

(* C16: the cleaned quantity is the absolute value of the raw quantity,    *)
(* the flag marks exactly the rows whose raw quantity was negative, and    *)
(* Cantidad_Original is the raw quantity.                                  *)
C16_QuantityAbsolute ==
    Ran =>
        \A i \in Rows(result.df_transacciones) :
            LET row == result.df_transacciones[i]
                original == row.Cantidad_Original
            IN  /\ ShadowsRaw(result.df_transacciones_raw, row, "Transaccion_ID",
                              [Cantidad_Vendida |-> "Cantidad_Original"])
                /\ row.Cantidad_Negativa_Flag = Some(NotNull(original) /\ Val(original) < 0)
                /\ IF IsNull(original) THEN IsNull(row.Cantidad_Vendida)
                   ELSE /\ Val(row.Cantidad_Vendida) >= 0
                        /\ Val(row.Cantidad_Vendida) \in {Val(original), -Val(original)}

\* raw quantities -2 and 2 cleaned in one run
C16_Witness ==
    /\ Ran
    /\ \E i, j \in Rows(result.df_transacciones) :
          LET trans == result.df_transacciones
          IN  /\ trans[i].Cantidad_Original = Some(-2) /\ trans[i].Cantidad_Vendida = Some(2)
              /\ trans[i].Cantidad_Negativa_Flag = Some(TRUE)
              /\ trans[j].Cantidad_Original = Some(2) /\ trans[j].Cantidad_Vendida = Some(2)
              /\ trans[j].Cantidad_Negativa_Flag = Some(FALSE)

\* Q3 + k * IQR and Q1 - k * IQR of the non-null values, in eighths
UpperFence8(values, k) ==
    2 * Percentile4(values, 3) + 2 * k * (Percentile4(values, 3) - Percentile4(values, 1))
LowerFence8(values, k) ==
    2 * Percentile4(values, 1) - 2 * k * (Percentile4(values, 3) - Percentile4(values, 1))

(* C17: the outlier flag of a delivery time is taken with multiplier 3     *)
(* over the uncapped raw times; every time above 90 becomes 90 and every   *)
(* other one is unchanged, flagged or not; Tiempo_Entrega_Original is the  *)
(* uncapped time.                                                          *)
C17_FlagAndCapIndependent ==
    Ran =>
        LET trans == result.df_transacciones
            uncapped == Column(trans, "Tiempo_Entrega_Original")
        IN  \A i \in Rows(trans) :
                /\ ShadowsRaw(result.df_transacciones_raw, trans[i], "Transaccion_ID",
                              [Tiempo_Entrega_Real |-> "Tiempo_Entrega_Original"])
                /\ trans[i].Tiempo_Entrega_Outlier_Flag
                      = Some(/\ NotNull(uncapped[i])
                             /\ \/ 8 * Val(uncapped[i]) > UpperFence8(uncapped, 3)
                                \/ 8 * Val(uncapped[i]) < LowerFence8(uncapped, 3))
                /\ trans[i].Tiempo_Entrega_Real
                      = IF NotNull(uncapped[i]) /\ Val(uncapped[i]) > 90 THEN Some(90)
                        ELSE uncapped[i]

(* raw 120 is flagged and cut to 90, where 90 itself would lie inside the  *)
(* fences; raw 60 is neither flagged nor cut                               *)
C17_Witness ==
    /\ Ran
    /\ \E i, j \in Rows(result.df_transacciones) :
          LET trans == result.df_transacciones
              uncapped == Column(trans, "Tiempo_Entrega_Original")
          IN  /\ trans[i].Tiempo_Entrega_Original = Some(120)
              /\ trans[i].Tiempo_Entrega_Real = Some(90)
              /\ trans[i].Tiempo_Entrega_Outlier_Flag = Some(TRUE)
              /\ 8 * 90 < UpperFence8(uncapped, 3)
              /\ trans[j].Tiempo_Entrega_Original = Some(60)
              /\ trans[j].Tiempo_Entrega_Real = Some(60)
              /\ trans[j].Tiempo_Entrega_Outlier_Flag = Some(FALSE)

\* what a raw ticket value says: yes (TRUE), no (FALSE) or nothing (Null)
TicketMeaning(cell) ==
    IF IsNull(cell) THEN Null
    ELSE LET x == Val(cell)
         IN  IF IsPy(x, "bool") THEN Some(PyBool(x.bool))
             ELSE IF IsPy(x, "int") THEN
                    (IF x.int = 1 THEN Some(PyBool(TRUE))
                     ELSE IF x.int = 0 THEN Some(PyBool(FALSE)) ELSE Null)
             ELSE IF IsPy(x, "float") THEN
                    (IF x.float = 1 THEN Some(PyBool(TRUE))
                     ELSE IF x.float = 0 THEN Some(PyBool(FALSE)) ELSE Null)
             ELSE IF LowerStrip(x.str) \in {"sí", "si", "yes", "1"} THEN Some(PyBool(TRUE))
             ELSE IF LowerStrip(x.str) \in {"no", "0", "false"} THEN Some(PyBool(FALSE))
             ELSE Null

(* C18: the cleaned ticket flag is true for every affirmative raw form     *)
(* (the texts 'sí', 'si', 'yes', '1', the boolean true, the number 1),     *)
(* false for every negative form ('no', '0', 'false', the boolean false,   *)
(* the number 0) and missing otherwise.                                    *)
C18_TicketTriState ==
    Ran =>
        \A i \in Rows(result.df_feedback) :
            result.df_feedback[i].Ticket_Soporte_Abierto
                = TicketMeaning(result.df_feedback[i].Ticket_Soporte_Original)

InAgeRange(cell) == NotNull(cell) /\ Val(cell) \in (18 * EdadUnit)..(100 * EdadUnit)

\* the median of the ages of the column that lie in [18, 100], by counting
MedianOfValidAges(ages) ==
    LET valid == [i \in DOMAIN ages |-> IF InAgeRange(ages[i]) THEN ages[i] ELSE Null]
    IN  IF \A i \in DOMAIN ages : IsNull(valid[i]) THEN Null
        ELSE Some(Percentile4(valid, 2) \div 4)

(* C19: the flag marks exactly the rows whose raw age is below 18 or above *)
(* 100; a flagged row holds the median of the raw ages in [18, 100], an    *)
(* unflagged row its raw age; Edad_Original is the raw age; so every       *)
(* cleaned age lies in [18, 100].                                          *)
C19_AgeImputed ==
    Ran =>
        LET feed == result.df_feedback
            ages == Column(feed, "Edad_Original")
        IN  \A i \in Rows(feed) :
                /\ ShadowsRaw(result.df_feedback_raw, feed[i], "Feedback_ID",
                              [Edad_Cliente |-> "Edad_Original"])
                /\ feed[i].Edad_Invalida_Flag
                      = Some(NotNull(ages[i]) /\ ~InAgeRange(ages[i]))
                /\ IF feed[i].Edad_Invalida_Flag = Some(TRUE)
                   THEN /\ feed[i].Edad_Cliente = MedianOfValidAges(ages)
                        /\ InAgeRange(feed[i].Edad_Cliente)
                   ELSE feed[i].Edad_Cliente = ages[i]
                /\ NotNull(feed[i].Edad_Cliente) => InAgeRange(feed[i].Edad_Cliente)

Clamp(v, lo, hi) == IF v < lo THEN lo ELSE IF v > hi THEN hi ELSE v

(* C20: every cleaned score that is present lies in [-100, 100], being the *)
(* raw score moved to the nearest bound; its category is 'Promotor' iff    *)
(* it is at least 50, 'Pasivo' iff it is in 0..49, 'Detractor' iff it is   *)
(* negative and 'Sin Datos' iff it is missing.                             *)
C20_NpsClampedAndClassified ==
    Ran =>
        \A i \in Rows(result.df_feedback) :
            LET row == result.df_feedback[i]
                nps == row.Satisfaccion_NPS
            IN  /\ \E j \in Rows(result.df_feedback_raw) :
                      LET raw == result.df_feedback_raw[j]
                      IN  /\ raw.Feedback_ID = row.Feedback_ID
                          /\ IF IsNull(raw.Satisfaccion_NPS) THEN IsNull(nps)
                             ELSE nps = Some(Clamp(Val(raw.Satisfaccion_NPS), -100, 100))
                /\ NotNull(nps) => Val(nps) \in -100..100
                /\ row.Categoria_NPS = Some("Promotor") <=> (NotNull(nps) /\ Val(nps) >= 50)
                /\ row.Categoria_NPS = Some("Pasivo")
                      <=> (NotNull(nps) /\ Val(nps) >= 0 /\ Val(nps) < 50)
                /\ row.Categoria_NPS = Some("Detractor") <=> (NotNull(nps) /\ Val(nps) < 0)
                /\ row.Categoria_NPS = Some("Sin Datos") <=> IsNull(nps)

\* scores clamped at both ends, on both thresholds and missing, in one run
C20_Witness ==
    /\ Ran
    /\ LET feed == result.df_feedback
           Has(id, nps, cat) ==
               \E i \in Rows(feed) : /\ feed[i].Feedback_ID = Some(id)
                                      /\ feed[i].Satisfaccion_NPS = nps
                                      /\ feed[i].Categoria_NPS = Some(cat)
       IN  /\ Has("F1", Some(100), "Promotor")
           /\ Has("F2", Some(-100), "Detractor")
           /\ Has("F3", Some(50), "Promotor")
           /\ Has("F4", Some(49), "Pasivo")
           /\ Has("F5", Some(0), "Pasivo")
           /\ Has("F6", Some(-1), "Detractor")
           /\ Has("F7", Null, "Sin Datos")

---------------------------------------------------------------------------
(* Claims about the derived columns                                        *)

\* the ages each band stands for, in half years; the last band has no end
AgeBands ==
    [x \in {"18-24", "25-34", "35-44", "45-54", "55-64", "65+"} |->
        CASE x = "18-24" -> [from |-> 18, below |-> 25]
          [] x = "25-34" -> [from |-> 25, below |-> 35]
          [] x = "35-44" -> [from |-> 35, below |-> 45]
          [] x = "45-54" -> [from |-> 45, below |-> 55]
          [] x = "55-64" -> [from |-> 55, below |-> 65]
          [] x = "65+"   -> [from |-> 65, below |-> 1000]]

InBand(age, band) ==
    /\ NotNull(age)
    /\ Val(age) >= AgeBands[band].from * EdadUnit
    /\ Val(age) < AgeBands[band].below * EdadUnit

(* C21: Segmento_Edad of every cleaned survey row is one of the six bands  *)
(* and the cleaned Edad_Cliente of the row lies in that band.              *)
C21_AgeBandContainsAge ==
    Ran =>
        \A i \in Rows(result.df_feedback) :
            LET row == result.df_feedback[i]
            IN  /\ NotNull(row.Segmento_Edad)
                /\ Val(row.Segmento_Edad) \in DOMAIN AgeBands
                /\ InBand(row.Edad_Cliente, Val(row.Segmento_Edad))

\* a row whose age is missing in the file and stays missing sits in '65+'
C21_MissingAgeInLastBand ==
    /\ Ran
    /\ \E i \in Rows(result.df_feedback) :
          /\ IsNull(result.df_feedback[i].Edad_Original)
          /\ IsNull(result.df_feedback[i].Edad_Cliente)
          /\ result.df_feedback[i].Segmento_Edad = Some("65+")

\* the merged row of a transaction
MergedRowOf(id) ==
    CHOOSE row \in Range(result.df_merged) : row.Transaccion_ID = Some(id)

HasMergedRow(id) ==
    \E row \in Range(result.df_merged) : row.Transaccion_ID = Some(id)

\* a missing amount counts as nothing
OrZero(cell) == IF IsNull(cell) THEN 0 ELSE Val(cell)

(* C22: on every merged row Ingreso_Total is price times quantity,         *)
(* Costo_Total is unit cost times quantity plus shipping with a missing    *)
(* unit cost or shipping counted as 0, Margen_Total is Ingreso_Total less  *)
(* Costo_Total and Margen_Negativo says whether Margen_Total is below 0;   *)
(* a sale of 2 units at 100 with unit cost 30 and shipping 10 has revenue  *)
(* 200, cost 70, margin 130, margin percentage 65 and no negative flag.    *)
C22_TotalsAndFlag ==
    Ran =>
        \A i \in Rows(result.df_merged) :
            LET row == result.df_merged[i]
                price == row.Precio_Venta_Final
                qty == row.Cantidad_Vendida
            IN  /\ IF NotNull(price) /\ NotNull(qty)
                   THEN row.Ingreso_Total = Some(Val(price) * Val(qty))
                   ELSE IsNull(row.Ingreso_Total)
                /\ IF NotNull(qty)
                   THEN row.Costo_Total
                           = Some(EnvioUnit * OrZero(row.Costo_Unitario_USD) * Val(qty)
                                  + OrZero(row.Costo_Envio))
                   ELSE IsNull(row.Costo_Total)
                /\ IF NotNull(row.Ingreso_Total) /\ NotNull(row.Costo_Total)
                   THEN /\ NotNull(row.Margen_Total)
                        /\ Val(row.Margen_Total) + Val(row.Costo_Total)
                              = EnvioUnit * Val(row.Ingreso_Total)
                   ELSE IsNull(row.Margen_Total)
                /\ row.Margen_Negativo
                      = Some(NotNull(row.Margen_Total) /\ Val(row.Margen_Total) < 0)
                /\ (/\ price = Some(100) /\ qty = Some(2)
                    /\ row.Costo_Unitario_USD = Some(30)
                    /\ row.Costo_Envio = Some(10 * EnvioUnit))
                   => /\ row.Ingreso_Total = Some(200)
                      /\ row.Costo_Total = Some(70 * EnvioUnit)
                      /\ row.Margen_Total = Some(130 * EnvioUnit)
                      /\ row.Margen_Porcentaje = Some([num |-> 65, den |-> 1])
                      /\ row.Margen_Negativo = Some(FALSE)

\* the sale of the example, a loss, and a sale whose unit cost is missing
C22_Witness ==
    /\ Ran
    /\ HasMergedRow("T1") /\ HasMergedRow("T2") /\ HasMergedRow("T5")
    /\ LET sale == MergedRowOf("T1")
           loss == MergedRowOf("T2")
           ghost == MergedRowOf("T5")
       IN  /\ sale.Precio_Venta_Final = Some(100) /\ sale.Cantidad_Vendida = Some(2)
           /\ sale.Costo_Unitario_USD = Some(30)
           /\ sale.Costo_Envio = Some(10 * EnvioUnit)
           /\ sale.Margen_Total = Some(130 * EnvioUnit)
           /\ loss.Margen_Total = Some(-60 * EnvioUnit)
           /\ loss.Margen_Negativo = Some(TRUE)
           /\ IsNull(ghost.Costo_Unitario_USD)
           /\ ghost.Costo_Total = Some(10 * EnvioUnit)

\* pct is the fraction 100 * margin / revenue (margin in quarters of a dollar)
IsPercentageOf(pct, margin, revenue) ==
    pct.num * EnvioUnit * revenue = 100 * margin * pct.den

(* C23: Margen_Porcentaje is never missing; on a row whose revenue is not  *)
(* 0 it is Margen_Total / Ingreso_Total x 100, on a row whose revenue is 0 *)
(* it is 0, and it is 0 on no other row unless the margin itself is 0.     *)
C23_MarginPercentage ==
    Ran =>
        \A i \in Rows(result.df_merged) :
            LET row == result.df_merged[i]
                revenue == row.Ingreso_Total
                pct == row.Margen_Porcentaje
            IN  /\ NotNull(pct)
                /\ revenue = Some(0) => Val(pct).num = 0
                /\ revenue # Some(0) =>
                      /\ NotNull(revenue) /\ NotNull(row.Margen_Total)
                      /\ IsPercentageOf(Val(pct), Val(row.Margen_Total), Val(revenue))

\* a row with no revenue at all, and one with a negative revenue, read 0 %
C23_ZeroWithoutZeroRevenue ==
    /\ Ran
    /\ HasMergedRow("T6") /\ HasMergedRow("T7")
    /\ IsNull(MergedRowOf("T6").Ingreso_Total)
    /\ MergedRowOf("T6").Margen_Porcentaje = Some([num |-> 0, den |-> 1])
    /\ MergedRowOf("T7").Ingreso_Total = Some(-20)
    /\ MergedRowOf("T7").Margen_Total = Some(-90 * EnvioUnit)
    /\ MergedRowOf("T7").Margen_Porcentaje = Some([num |-> 0, den |-> 1])

\* price less unit cost; there is no difference when either is missing
Difference(price, cost) ==
    IF IsNull(price) \/ IsNull(cost) THEN Null ELSE Some(Val(price) - Val(cost))

(* C24: Margen_Unitario is missing on every row of a product that is not   *)
(* in the inventory and is price less unit cost on every other row, a      *)
(* missing unit cost not being read as 0 there.                            *)
C24_UnitMargin ==
    Ran =>
        \A i \in Rows(result.df_merged) :
            LET row == result.df_merged[i]
            IN  IF row.SKU_Fantasma = Some(TRUE)
                THEN IsNull(row.Margen_Unitario)
                ELSE row.Margen_Unitario
                        = Difference(row.Precio_Venta_Final, row.Costo_Unitario_USD)

\* a product of the inventory without a unit cost has its price as margin
C24_MissingCostReadAsZero ==
    /\ Ran
    /\ HasMergedRow("T4") /\ HasMergedRow("T5")
    /\ MergedRowOf("T4").SKU_Fantasma = Some(FALSE)
    /\ IsNull(MergedRowOf("T4").Costo_Unitario_USD)
    /\ MergedRowOf("T4").Margen_Unitario = Some(100)
    /\ MergedRowOf("T5").SKU_Fantasma = Some(TRUE)
    /\ IsNull(MergedRowOf("T5").Margen_Unitario)

\* the delivery categories and the gaps (in days) each one stands for
DeliveryCategory(gap8) ==
    CASE gap8 <= -3 * LeadUnit -> "Muy Adelantado"
      [] gap8 > -3 * LeadUnit /\ gap8 < 0 -> "Adelantado"
      [] gap8 = 0 -> "A Tiempo"
      [] gap8 > 0 /\ gap8 <= 3 * LeadUnit -> "Leve Retraso"
      [] gap8 > 3 * LeadUnit -> "Retraso Crítico"

(* C25: Brecha_Entrega is the actual delivery time less the lead time and  *)
(* is missing when the lead time is missing; Rendimiento_Entrega is 'Muy   *)
(* Adelantado' for a gap of -3 or less, 'Adelantado' for a gap in (-3, 0), *)
(* 'A Tiempo' for 0, 'Leve Retraso' for a gap in (0, 3], 'Retraso          *)
(* Crítico' above 3 and 'Sin Datos' for a missing gap, on every row.       *)
C25_GapAndPerformance ==
    Ran =>
        \A i \in Rows(result.df_merged) :
            LET row == result.df_merged[i]
                gap == row.Brecha_Entrega
            IN  /\ IsNull(row.Lead_Time_Dias) => IsNull(gap)
                /\ (NotNull(row.Lead_Time_Dias) /\ NotNull(row.Tiempo_Entrega_Real))
                      => /\ NotNull(gap)
                         /\ Val(gap) + Val(row.Lead_Time_Dias).float
                               = LeadUnit * Val(row.Tiempo_Entrega_Real)
                /\ row.Rendimiento_Entrega
                      = Some(IF IsNull(gap) THEN "Sin Datos" ELSE DeliveryCategory(Val(gap)))

\* one delivery of each category in one run, both ends of (0, 3] included
C25_Witness ==
    /\ Ran
    /\ \A id \in {"T1", "T2", "T3", "T4", "T5", "T6"} : HasMergedRow(id)
    /\ LET Is(id, gap, cat) ==
               /\ MergedRowOf(id).Brecha_Entrega = gap
               /\ MergedRowOf(id).Rendimiento_Entrega = Some(cat)
       IN  /\ Is("T1", Some(-3 * LeadUnit), "Muy Adelantado")
           /\ Is("T2", Some(-2 * LeadUnit), "Adelantado")
           /\ Is("T3", Some(0), "A Tiempo")
           /\ Is("T4", Some(3 * LeadUnit), "Leve Retraso")
           /\ Is("T5", Some(4 * LeadUnit), "Retraso Crítico")
           /\ Is("T6", Null, "Sin Datos")

---------------------------------------------------------------------------
(* Claims about the anomaly tables and the report                          *)

(* The anomaly tables: the cleaner that cuts each one, the flag column of  *)
(* its anomaly, and the key of its rows.                                   *)
AnomalyTables ==
    { [dataset |-> "inventario", name |-> "stock_negativo",
       flag |-> "Stock_Negativo_Flag", key |-> "SKU_ID"],
      [dataset |-> "inventario", name |-> "costo_outliers",
       flag |-> "Costo_Outlier_Flag", key |-> "SKU_ID"],
      [dataset |-> "transacciones", name |-> "fechas_futuras",
       flag |-> "Fecha_Futura_Flag", key |-> "Transaccion_ID"],
      [dataset |-> "transacciones", name |-> "cantidades_negativas",
       flag |-> "Cantidad_Negativa_Flag", key |-> "Transaccion_ID"],
      [dataset |-> "transacciones", name |-> "tiempo_entrega_outliers",
       flag |-> "Tiempo_Entrega_Outlier_Flag", key |-> "Transaccion_ID"],
      [dataset |-> "feedback", name |-> "edades_invalidas",
       flag |-> "Edad_Invalida_Flag", key |-> "Feedback_ID"],
      [dataset |-> "feedback", name |-> "ratings_invalidos",
       flag |-> "Rating_Producto_Invalido_Flag", key |-> "Feedback_ID"] }

RawOf(dataset) ==
    CASE dataset = "inventario" -> result.df_inventario_raw
      [] dataset = "transacciones" -> result.df_transacciones_raw
      [] dataset = "feedback" -> result.df_feedback_raw

CleanOf(dataset) ==
    CASE dataset = "inventario" -> result.df_inventario
      [] dataset = "transacciones" -> result.df_transacciones
      [] dataset = "feedback" -> result.df_feedback

\* the column of the file that a column of an anomaly table reports
RawColumn ==
    [Stock_Original |-> "Stock_Actual", Cantidad_Original |-> "Cantidad_Vendida",
     Tiempo_Entrega_Original |-> "Tiempo_Entrega_Real",
     Edad_Original |-> "Edad_Cliente",
     Rating_Producto_Original |-> "Rating_Producto",
     Fecha_Venta_Original |-> "Fecha_Venta"]

\* the value a column of an anomaly table holds when it reports the file
OriginalValue(raw, col) ==
    IF col \in DOMAIN RawColumn THEN raw[RawColumn[col]]
    ELSE IF col = "Fecha_Venta" THEN ToDatetime(raw.Fecha_Venta, DmyDateTable)
    ELSE raw[col]

SideTablesOf(dataset) == result.cleaning_logs[dataset].outliers_dataframes

\* the rows of table t are the flagged rows, each with the values of cols
\* as they stand in the file
CarriesOriginals(t, cols) ==
    LET side == SideTablesOf(t.dataset)[t.name]
        clean == CleanOf(t.dataset)
        flagged == SelectRows(clean, [i \in 1..Len(clean) |-> clean[i][t.flag] = Some(TRUE)])
    IN  /\ Column(side, t.key) = Column(flagged, t.key)
        /\ \A i \in Rows(side) :
              \E j \in Rows(RawOf(t.dataset)) :
                  \A c \in (DOMAIN side[i]) \cap cols :
                      side[i][c] = OriginalValue(RawOf(t.dataset)[j], c)

AllColumns ==
    UNION {DOMAIN r : r \in {BaseInv, BaseTrans, BaseFeed}} \cup DOMAIN RawColumn

(* C26: every anomaly table holds exactly the rows flagged for its         *)
(* anomaly (and is there whenever a row is flagged), and every value it    *)
(* carries is the value that field has in the file for that record.        *)
C26_SideTablesCarryOriginals ==
    Ran =>
        \A t \in AnomalyTables :
            LET clean == CleanOf(t.dataset)
            IN  /\ (t.name \in DOMAIN SideTablesOf(t.dataset))
                      <=> (\E i \in Rows(clean) : clean[i][t.flag] = Some(TRUE))
                /\ (t.name \in DOMAIN SideTablesOf(t.dataset))
                      => CarriesOriginals(t, AllColumns)

\* the cost table shows the corrected stock and the normalised warehouse
C26_CorrectedValueCarried ==
    /\ Ran
    /\ "costo_outliers" \in DOMAIN SideTablesOf("inventario")
    /\ \E i \in Rows(SideTablesOf("inventario").costo_outliers) :
          LET row == SideTablesOf("inventario").costo_outliers[i]
          IN  /\ row.SKU_ID = Some("S5")
              /\ row.Costo_Unitario_USD = Some(1000)
              /\ row.Stock_Actual = Some(0)
              /\ row.Bodega_Origen = Some("Norte")
    /\ \E j \in Rows(result.df_inventario_raw) :
          /\ result.df_inventario_raw[j].SKU_ID = Some("S5")
          /\ result.df_inventario_raw[j].Stock_Actual = Some(-5)
          /\ result.df_inventario_raw[j].Bodega_Origen = Some("NORTE ")

---------------------------------------------------------------------------
(* export_cleaning_report_to_csv and generate_ai_insights (utils.py)       *)

\* sep.join(items): a text is the sequence of its parts
Join(sep, items) ==
    IF Len(items) = 0 THEN <<>>
    ELSE Head(items)
         \o Flatten([i \in 1..(Len(items) - 1) |-> <<sep>> \o items[i + 1]])

\* the columns every row of the export has, each with the report entry read
MetricFields ==
    { [column |-> "Dataset", path |-> <<"dataset">>],
      [column |-> "Registros_Antes", path |-> <<"metricas_antes", "registros">>],
      [column |-> "Registros_Despues", path |-> <<"metricas_despues", "registros">>],
      [column |-> "Health_Score_Antes", path |-> <<"metricas_antes", "health_score">>],
      [column |-> "Health_Score_Despues", path |-> <<"metricas_despues", "health_score">>],
      [column |-> "Mejora_Health_Score", path |-> <<"mejora_health_score">>],
      [column |-> "Completitud_Antes", path |-> <<"metricas_antes", "completitud">>],
      [column |-> "Completitud_Despues", path |-> <<"metricas_despues", "completitud">>],
      [column |-> "Unicidad_Antes", path |-> <<"metricas_antes", "unicidad">>],
      [column |-> "Unicidad_Despues", path |-> <<"metricas_despues", "unicidad">>],
      [column |-> "Duplicados_Eliminados", path |-> <<"metricas_antes", "duplicados">>],
      [column |-> "Celdas_Nulas_Antes", path |-> <<"metricas_antes", "celdas_nulas">>],
      [column |-> "Celdas_Nulas_Despues", path |-> <<"metricas_despues", "celdas_nulas">>],
      [column |-> "Acciones_Realizadas", path |-> <<"acciones_realizadas">>] }

\* the columns the two loops add for the imputed and the outlier columns
DetailFields(report) ==
    UNION {{ [column |-> "Imputacion_" \o col \o "_Metodo",
              path |-> <<"imputaciones", col, "metodo">>],
             [column |-> "Imputacion_" \o col \o "_Justificacion",
              path |-> <<"imputaciones", col, "justificacion">>],
             [column |-> "Imputacion_" \o col \o "_Valores",
              path |-> <<"imputaciones", col, "valores_imputados">>] } :
           col \in DOMAIN report.imputaciones}
    \cup { [column |-> "Outliers_" \o col \o "_Cantidad",
            path |-> <<"outliers_detectados", col, "cantidad">>] :
           col \in DOMAIN report.outliers_detectados }

\* info.get(key, default) of the two loops
DetailDefault(key) == IF key \in {"metodo", "justificacion"} THEN "" ELSE 0

\* the value one column of the row gets
ExportValue(report, path) ==
    IF path = <<"acciones_realizadas">> THEN Join("; ", report.acciones_realizadas)
    ELSE IF Len(path) = 1 THEN report[path[1]]
    ELSE IF Len(path) = 2 THEN report[path[1]][path[2]]
    ELSE DictGet(report[path[1]][path[2]], path[3], DetailDefault(path[3]))

ExportRow(report) ==
    Let(MetricFields \cup DetailFields(report), LAMBDA fields :
        Dict([c \in {f.column : f \in fields} |->
                ExportValue(report, (CHOOSE f \in fields : f.column = c).path)]))

\* pd.DataFrame(rows): the columns of all rows, NaN where a row has none
DataFrame(rows) ==
    Let(UNION {DOMAIN rows[i] : i \in 1..Len(rows)}, LAMBDA cols :
        Tuple([i \in 1..Len(rows) |->
                 Dict([c \in cols |-> IF c \in DOMAIN rows[i] THEN rows[i][c]
                                      ELSE Null])]))

\* the frame returned; the file written is this frame as text
export_cleaning_report_to_csv(reports) ==
    DataFrame(Tuple([i \in 1..Len(reports) |-> ExportRow(reports[i])]))

(* One call of generate_ai_insights.  The import of the client library is  *)
(* the first statement, ahead of the try block; the client is built, the   *)
(* request sent and the answer read inside it.                             *)
RequestOutcomes == {"completed", "rejected", "unreachable", "no choices"}

\* str(e) of the exception each failure raises inside the try block
RequestError ==
    ("rejected" :> "Error code: 401") @@ ("unreachable" :> "Connection error.")
    @@ ("no choices" :> "list index out of range")

generate_ai_insights(library_installed, outcome) ==
    IF ~library_installed THEN Raised("No module named 'groq'")
    ELSE IF outcome = "completed" THEN [returned |-> "recomendaciones"]
    ELSE [returned |-> "Error al generar insights: " \o RequestError[outcome]]

---------------------------------------------------------------------------
(* Report harness: the pipeline runs once on a set of files, then the      *)
(* audit tab exports the reports and the insights tab asks for insights.   *)

ReportScenarios ==
    FeedbackIdScenarios \cup OutlierScenarios \cup SurveyScenarios
    \cup AnomalyScenarios \cup CountScenarios
    \cup {f \in KeyScenarios :
             Len(f.inventario) + Len(f.transacciones) + Len(f.feedback)
                = MaxTotalRows}

InitReport ==
    /\ HsIdle
    /\ OlIdle
    /\ RcIdle
    /\ RpIdle
    /\ files \in ReportScenarios
    /\ clock = 0
    /\ runs = 0
    /\ result = NoRecord

RpLoad ==
    /\ result = NoRecord
    /\ \E now_inv \in clock..MaxClock :
          \E now_trans \in now_inv..MaxClock :
              /\ result' = load_and_process_data(files, now_inv, now_trans)
              /\ clock' = now_trans
    /\ runs' = runs + 1
    /\ UNCHANGED <<files, hsVars, olVars, rcVars, rpVars>>

\* render_auditoria_tab builds the download of the report
RpExport ==
    /\ result # NoRecord
    /\ exported = NoRecord
    /\ exported' = [df_report |-> export_cleaning_report_to_csv(result.reports)]
    /\ UNCHANGED <<insights, plVars, hsVars, olVars, rcVars>>

(* render_insights_tab, button pressed with a key entered: what the call   *)
(* gave and what the tab shows, an exception of the call being caught by   *)
(* the handler of the tab.                                                 *)
RpInsights ==
    /\ result # NoRecord
    /\ insights = NoRecord
    /\ \E library_installed \in BOOLEAN, outcome \in RequestOutcomes :
          LET call == generate_ai_insights(library_installed, outcome)
          IN  insights' =
                [library_installed |-> library_installed,
                 outcome |-> outcome,
                 call |-> call,
                 shown |-> IF DOMAIN call = {"raised"}
                           THEN [error |-> "Error al generar insights: " \o call.raised]
                           ELSE [markdown |-> call.returned]]
    /\ UNCHANGED <<exported, plVars, hsVars, olVars, rcVars>>

NextReport == RpLoad \/ RpExport \/ RpInsights

SpecReport == InitReport /\ [][NextReport]_vars

---------------------------------------------------------------------------
(* Claims about the export and the insights                                *)

Exported == exported # NoRecord

\* the entries of one detail dictionary of a report, column by column
DetailEntries(report, g) ==
    UNION {{<<g, col, k>> : k \in DOMAIN report[g][col]} : col \in DOMAIN report[g]}

\* every entry of a report: metrics, delta, actions, details, null shares
ReportEntries(report) ==
    {<<"dataset">>, <<"mejora_health_score">>, <<"acciones_realizadas">>}
    \cup {<<"metricas_antes", k>> : k \in DOMAIN report.metricas_antes}
    \cup {<<"metricas_despues", k>> : k \in DOMAIN report.metricas_despues}
    \cup DetailEntries(report, "imputaciones")
    \cup DetailEntries(report, "outliers_detectados")
    \cup {<<"nulidad_por_columna_antes", col>> :
             col \in DOMAIN report.nulidad_por_columna_antes}
    \cup {<<"nulidad_por_columna_despues", col>> :
             col \in DOMAIN report.nulidad_por_columna_despues}

\* the entries of a report that a row of the export holds in some column
EntriesCarried(report, row) ==
    {f.path : f \in {g \in MetricFields \cup DetailFields(report) :
                        /\ g.column \in DOMAIN row
                        /\ row[g.column] = ExportValue(report, g.path)}}

(* C27: the export has one row for each report, and every entry of the     *)
(* report (each metric of both snapshots, the delta, the actions, every    *)
(* imputation detail, every outlier statistic with its bounds, the null    *)
(* share of every column in both snapshots) is held by a column of it.     *)
C27_ExportLossless ==
    Exported =>
        /\ Len(exported.df_report) = Len(result.reports)
        /\ \A i \in Rows(result.reports) :
              ReportEntries(result.reports[i])
                  \subseteq EntriesCarried(result.reports[i], exported.df_report[i])

\* the entries the export has no column for
NotExported(report) ==
    {<<"metricas_despues", "duplicados">>}
    \cup {e \in DetailEntries(report, "imputaciones") :
             e[3] \notin {"metodo", "justificacion", "valores_imputados"}}
    \cup {e \in DetailEntries(report, "outliers_detectados") : e[3] # "cantidad"}
    \cup {<<"nulidad_por_columna_antes", col>> :
             col \in DOMAIN report.nulidad_por_columna_antes}
    \cup {<<"nulidad_por_columna_despues", col>> :
             col \in DOMAIN report.nulidad_por_columna_despues}

\* an export from which the fences of the cost outliers cannot be read
C27_BoundsNotExported ==
    /\ Exported
    /\ LET report == result.reports[1]
           row == exported.df_report[1]
       IN  /\ report.outliers_detectados.Costo_Unitario_USD.cantidad = 1
           /\ NotNull(report.outliers_detectados.Costo_Unitario_USD.limite_superior)
           /\ row.Outliers_Costo_Unitario_USD_Cantidad = 1
           /\ <<"outliers_detectados", "Costo_Unitario_USD", "limite_superior">>
                 \in ReportEntries(report) \ EntriesCarried(report, row)
           /\ ReportEntries(report) \ EntriesCarried(report, row) = NotExported(report)

Asked == insights # NoRecord

\* the call did not end the way a completed request does
InsightFailed == ~insights.library_installed \/ insights.outcome # "completed"

\* the text of the failure met by the call
InsightError ==
    IF ~insights.library_installed THEN "No module named 'groq'"
    ELSE RequestError[insights.outcome]

(* C28: whatever fails in the call for insights, the client library being  *)
(* absent and the request being rejected included, generate_ai_insights    *)
(* raises nothing and returns a message that holds the error.              *)
C28_FailureReturnedAsMessage ==
    Asked =>
        /\ DOMAIN insights.call = {"returned"}
        /\ InsightFailed =>
              insights.call.returned = "Error al generar insights: " \o InsightError

\* without the library the call raises, and the tab reports the error
C28_ImportErrorRaised ==
    /\ Asked
    /\ ~insights.library_installed
    /\ insights.call = Raised("No module named 'groq'")
    /\ insights.shown = [error |-> "Error al generar insights: No module named 'groq'"]

---------------------------------------------------------------------------
(* Claims about the pipeline as a whole                                    *)

DatasetOrder == <<"inventario", "transacciones", "feedback">>

\* the number a log reports in its action about removed duplicates, if any
DuplicatesLogged(log) ==
    {a[2] : a \in {b \in Range(log.acciones) :
                      b[1] \in {"Eliminados registros duplicados exactos",
                                "Eliminados registros duplicados"}}}

\* rows in, rows out and duplicates agree in the log of dataset i
LogAccounts(i) ==
    LET log == result.cleaning_logs[DatasetOrder[i]]
        removed == log.registros_originales - log.registros_finales
    IN  /\ log.registros_originales = Len(RawOf(DatasetOrder[i]))
        /\ log.registros_finales = Len(CleanOf(DatasetOrder[i]))
        /\ removed >= 0
        /\ DuplicatesLogged(log) = IF removed > 0 THEN {removed} ELSE {}

\* rows in, rows out and duplicates agree in row i of the export
ExportAccounts(i) ==
    LET log == result.cleaning_logs[DatasetOrder[i]]
        row == exported.df_report[i]
    IN  /\ row.Registros_Antes = log.registros_originales
        /\ row.Registros_Despues = log.registros_finales
        /\ row.Duplicados_Eliminados = row.Registros_Antes - row.Registros_Despues

(* C30: for each dataset no row is added, the rows removed are as many as  *)
(* the duplicates the log reports in 'Eliminados N registros duplicados',  *)
(* and as many as the export reports in Duplicados_Eliminados, which is    *)
(* Registros_Antes less Registros_Despues.                                 *)
C30_RowAccounting ==
    Exported => \A i \in 1..3 : LogAccounts(i) /\ ExportAccounts(i)

\* two answers under one Feedback_ID: one row removed, none reported
C30_RemovedRowNotReported ==
    /\ Exported
    /\ LogAccounts(3)
    /\ DuplicatesLogged(result.cleaning_logs.feedback) = {1}
    /\ exported.df_report[3].Registros_Antes = 2
    /\ exported.df_report[3].Registros_Despues = 1
    /\ exported.df_report[3].Duplicados_Eliminados = 0

=============================================================================
